---- MODULE Spec2Model ----
(***************************************************************************)
(* Model of the roundrobin circuit/block protocol                          *)
(* (src/src/protocols/roundrobin.c): header framing, the reassembly queue, *)
(* the upstream bridge, the round-robin dispatcher and the circuit table.  *)
(*                                                                         *)
(* Buffers (struct evbuffer) are sequences of runs.  A run                 *)
(* [src, base, from, len] stands for len consecutive bytes, the bytes      *)
(* from .. from+len-1 of the byte source src: source 0 is the sender's     *)
(* upstream stream, source -1 is random_bytes output, and a source k > 0   *)
(* is the payload of the k-th block put on the wire by the network         *)
(* environment.  base is the stream offset at which the source places its  *)
(* byte 0 (the offset field of the block that carried it; 0 for the        *)
(* upstream stream).  Moving bytes between buffers concatenates run        *)
(* sequences, so a buffer's contents are known byte for byte at any block  *)
(* length.                                                                 *)
(***************************************************************************)
EXTENDS Integers, Sequences, FiniteSets, TLC

\* ------------------------------------------------------------------------
\* Widths and protocol constants
\* ------------------------------------------------------------------------

\* Width of rr_header.offset, send_offset and recv_offset.  uint32_t in the
\* code; the model keeps the same wrap-around arithmetic at a
\* width that TLC's integers can hold.
OffsetBits == 20

OffsetMod == 2 ^ OffsetBits

OffsetHalf == 2 ^ (OffsetBits - 1)

\* uint16_t: rr_header.length, rr_header.flags, rr_reassembly_elt.length,
\* next_block_size, next_down.
U16Bits == 16

U16Mod == 2 ^ U16Bits

RR_WIRE_HDR_LEN == 16

RR_MIN_BLOCK == RR_WIRE_HDR_LEN * 2

RR_MAX_BLOCK == 32767

RR_F_SYN == 1

RR_F_FIN == 2

RR_F_CHAFF == 4

\* Truncation of an arithmetic result to the width of its destination.
U32(x) == x % OffsetMod

U16(x) == x % U16Mod

\* f & bit # 0, for a single-bit mask.
HasFlag(f, bit) == (f \div bit) % 2 = 1

\* a | b on 16-bit values.
RECURSIVE BitOr(_, _)
BitOr(a, b) ==
  IF a = 0 THEN b
  ELSE IF b = 0 THEN a
  ELSE (IF a % 2 = 1 \/ b % 2 = 1 THEN 1 ELSE 0) + 2 * BitOr(a \div 2, b \div 2)

\* ------------------------------------------------------------------------
\* evbuffer operations
\* ------------------------------------------------------------------------

Run(src, base, from, len) ==
  [src |-> src, base |-> base, from |-> from, len |-> len]

\* evbuffer_get_length
RECURSIVE BufLen(_)
BufLen(buf) == IF buf = <<>> THEN 0 ELSE Head(buf).len + BufLen(Tail(buf))

\* The first n bytes of buf (evbuffer_copyout / evbuffer_remove_buffer).
RECURSIVE BufTake(_, _)
BufTake(buf, n) ==
  IF n = 0 \/ buf = <<>> THEN <<>>
  ELSE IF Head(buf).len <= n
       THEN <<Head(buf)>> \o BufTake(Tail(buf), n - Head(buf).len)
       ELSE <<[Head(buf) EXCEPT !.len = n]>>

\* buf without its first n bytes (evbuffer_drain).
RECURSIVE BufDrain(_, _)
BufDrain(buf, n) ==
  IF n = 0 \/ buf = <<>> THEN buf
  ELSE IF Head(buf).len <= n
       THEN BufDrain(Tail(buf), n - Head(buf).len)
       ELSE <<[Head(buf) EXCEPT !.from = @ + n, !.len = @ - n]>> \o Tail(buf)

\* The evbuffer calls of the program that fail for want of memory, by the
\* place of the call: "send_block" for the calls of rr_send_block, "grow"
\* for the first evbuffer_add_buffer or evbuffer_prepend_buffer after the
\* labels grow_back and grow_front, "merge" for those in the loops that
\* follow them.  A call that fails leaves its buffers as they are.
VARIABLE enomem

\* The http_apache steg module (src/src/steg/http_apache.cc) keeps one
\* http_apache_steg_config_t on each side of the tunnel; NoConfig stands
\* for a side whose configuration has not been constructed.
VARIABLE apache

Sides == {"client", "server"}

NoConfig == [constructed |-> FALSE]

\* evbuffer_add_buffer(dst, src): all of src is appended to dst.
BufAdd(dst, src) == dst \o src

\* evbuffer_prepend_buffer(dst, src): all of src is put in front of dst.
BufPrepend(dst, src) == src \o dst

\* The bytes of a buffer, run boundaries forgotten: adjacent runs that
\* continue one another are joined and empty runs dropped.
RECURSIVE BufBytes(_)
BufBytes(buf) ==
  IF buf = <<>> THEN <<>>
  ELSE IF Head(buf).len = 0 THEN BufBytes(Tail(buf))
  ELSE LET rest == BufBytes(Tail(buf))
       IN IF rest # <<>> /\ Head(rest).src = Head(buf).src
             /\ Head(rest).from = Head(buf).from + Head(buf).len
          THEN <<[Head(buf) EXCEPT !.len = @ + Head(rest).len]>> \o Tail(rest)
          ELSE <<Head(buf)>> \o rest

\* ------------------------------------------------------------------------
\* Sequence arithmetic
\* ------------------------------------------------------------------------

\* True if s < t as plain numbers: a comparison that takes no account of the
\* wrap.
mod32_lt_plain(s, t) == s < t

\* True if s < t (mod 2**w).
mod32_lt(s, t) ==
  LET d == U32(t - s) IN 0 < d /\ d < OffsetHalf

\* mod32_le with a distance of exactly half the space counted as not
\* greater.
mod32_le_half_included(s, t) ==
  LET d == U32(t - s) IN d <= OffsetHalf

\* True if s <= t (mod 2**w).
mod32_le(s, t) ==
  LET d == U32(t - s) IN d < OffsetHalf

\* ------------------------------------------------------------------------
\* Header serialization and deserialization
\* ------------------------------------------------------------------------

Header(ckt_id, offset, length, flags) ==
  [ckt_id |-> ckt_id, offset |-> offset, length |-> length, flags |-> flags]

\* (x & (0xFF << shift)) >> shift.  Circuit ids of the model are below 2^31,
\* so the bytes of a 64-bit field above bit 30 are zero.
ByteAt(x, shift) == IF shift > 30 THEN 0 ELSE (x \div (2 ^ shift)) % 256

\* ((uintN_t)b) << shift
ShiftLeft(b, shift) == IF b = 0 THEN 0 ELSE b * (2 ^ shift)

\* rr_write_header: the 16 bytes on the wire, in network byte order.
rr_write_header(hdr) ==
  << ByteAt(hdr.ckt_id, 56), ByteAt(hdr.ckt_id, 48), ByteAt(hdr.ckt_id, 40),
     ByteAt(hdr.ckt_id, 32), ByteAt(hdr.ckt_id, 24), ByteAt(hdr.ckt_id, 16),
     ByteAt(hdr.ckt_id, 8), ByteAt(hdr.ckt_id, 0),
     ByteAt(hdr.offset, 24), ByteAt(hdr.offset, 16), ByteAt(hdr.offset, 8),
     ByteAt(hdr.offset, 0),
     ByteAt(hdr.length, 8), ByteAt(hdr.length, 0),
     ByteAt(hdr.flags, 8), ByteAt(hdr.flags, 0) >>

\* rr_peek_header with the two bytes of the length taken low byte first.
rr_peek_header_low_byte_first(w) ==
  Header(ShiftLeft(w[1], 56) + ShiftLeft(w[2], 48) + ShiftLeft(w[3], 40)
           + ShiftLeft(w[4], 32) + ShiftLeft(w[5], 24) + ShiftLeft(w[6], 16)
           + ShiftLeft(w[7], 8) + ShiftLeft(w[8], 0),
         U32(ShiftLeft(w[9], 24) + ShiftLeft(w[10], 16) + ShiftLeft(w[11], 8)
               + ShiftLeft(w[12], 0)),
         U16(ShiftLeft(w[14], 8) + ShiftLeft(w[13], 0)),
         U16(ShiftLeft(w[15], 8) + ShiftLeft(w[16], 0)))

\* rr_peek_header on a buffer that starts with the 16 bytes w: the header
\* read back.  No field is validated.
rr_peek_header(w) ==
  Header(ShiftLeft(w[1], 56) + ShiftLeft(w[2], 48) + ShiftLeft(w[3], 40)
           + ShiftLeft(w[4], 32) + ShiftLeft(w[5], 24) + ShiftLeft(w[6], 16)
           + ShiftLeft(w[7], 8) + ShiftLeft(w[8], 0),
         U32(ShiftLeft(w[9], 24) + ShiftLeft(w[10], 16) + ShiftLeft(w[11], 8)
               + ShiftLeft(w[12], 0)),
         U16(ShiftLeft(w[13], 8) + ShiftLeft(w[14], 0)),
         U16(ShiftLeft(w[15], 8) + ShiftLeft(w[16], 0)))

\* A block as it travels: the wire header and the payload bytes after it.
WireBlock(hdr, payload) == [header |-> rr_write_header(hdr), payload |-> payload]

\* evbuffer_get_length of a buffer that holds the blocks of seq.
RECURSIVE WireLen(_)
WireLen(seq) ==
  IF seq = <<>> THEN 0
  ELSE RR_WIRE_HDR_LEN + BufLen(Head(seq).payload) + WireLen(Tail(seq))

\* ------------------------------------------------------------------------
\* Reassembly queue
\* ------------------------------------------------------------------------
\* The circular list with its sentinel is a sequence of elements in list
\* order: queue->next is the first element, queue->prev the last, and the
\* sentinel is the position before the first and after the last.

Elt(offset, length, flags, data) ==
  [offset |-> offset, length |-> length, flags |-> flags, data |-> data]

\* p->offset + p->length, as the uint32_t expression the code evaluates.
EltEnd(p) == U32(p.offset + p.length)

RemoveAt(q, i) == SubSeq(q, 1, i - 1) \o SubSeq(q, i + 1, Len(q))

InsertAt(q, i, e) == SubSeq(q, 1, i - 1) \o <<e>> \o SubSeq(q, i, Len(q))

\* grow_back: "Can we now combine 'p' with its successor?"  The result is
\* [rc, queue]; when evbuffer_add_buffer fails the function returns -1 with
\* the queue as it is at that point.
RECURSIVE MergeSuccessors(_, _)
MergeSuccessors(q, i) ==
  IF i < Len(q) /\ EltEnd(q[i]) = q[i + 1].offset
  THEN LET p == q[i]
           n == q[i + 1]
           merged == Elt(p.offset, U16(p.length + n.length),
                         BitOr(p.flags, n.flags), BufAdd(p.data, n.data))
       IN IF "merge" \in enomem
          THEN [rc |-> -1, queue |-> q]
          ELSE MergeSuccessors(RemoveAt([q EXCEPT ![i] = merged], i + 1), i)
  ELSE [rc |-> 0, queue |-> q]

\* grow_front: "Can we now combine 'p' with its predecessor?"  The result
\* is [rc, queue]; when evbuffer_prepend_buffer fails the function returns -1
\* with the queue as it is at that point.
RECURSIVE MergePredecessors(_, _)
MergePredecessors(q, i) ==
  IF i > 1 /\ q[i].offset = EltEnd(q[i - 1])
  THEN LET p == q[i]
           n == q[i - 1]
           merged == Elt(U32(p.offset - n.length), U16(p.length + n.length),
                         BitOr(p.flags, n.flags), BufPrepend(p.data, n.data))
       IN IF "merge" \in enomem
          THEN [rc |-> -1, queue |-> q]
          ELSE MergePredecessors(RemoveAt([q EXCEPT ![i] = merged], i - 1),
                                 i - 1)
  ELSE [rc |-> 0, queue |-> q]

\* The grow_back label: the block is appended to element i.  When
\* evbuffer_add_buffer(p->data, block) fails nothing has been changed.
GrowBack(q, i, block, hdr) ==
  LET p == q[i]
      grown == Elt(p.offset, U16(p.length + hdr.length),
                   BitOr(p.flags, hdr.flags), BufAdd(p.data, block))
  IN IF "grow" \in enomem
     THEN [rc |-> -1, queue |-> q]
     ELSE MergeSuccessors([q EXCEPT ![i] = grown], i)

\* The grow_front label: the block is put in front of element i.  When
\* evbuffer_prepend_buffer(p->data, block) fails nothing has been changed.
GrowFront(q, i, block, hdr) ==
  LET p == q[i]
      grown == Elt(U32(p.offset - hdr.length), U16(p.length + hdr.length),
                   BitOr(p.flags, hdr.flags), BufPrepend(p.data, block))
  IN IF "grow" \in enomem
     THEN [rc |-> -1, queue |-> q]
     ELSE MergePredecessors([q EXCEPT ![i] = grown], i)

\* The placement loop of rr_reassemble_block from element i on, and the
\* code after it.  The result is [rc, queue]: rc is the return value.
RECURSIVE PlaceBlock(_, _, _, _)
PlaceBlock(q, i, block, hdr) ==
  LET hend == U32(hdr.offset + hdr.length)
      new == Elt(hdr.offset, hdr.length, hdr.flags, block)
  IN IF i > Len(q)
     THEN \* p is the sentinel: the block must come after the last element
          IF Len(q) > 0 /\ ~mod32_lt(EltEnd(q[Len(q)]), hdr.offset)
          THEN [rc |-> -1, queue |-> q]
          ELSE [rc |-> 0, queue |-> Append(q, new)]
     ELSE IF hend = q[i].offset
          THEN GrowFront(q, i, block, hdr)
     ELSE IF hdr.offset = EltEnd(q[i])
          THEN GrowBack(q, i, block, hdr)
     ELSE IF mod32_lt(hend, q[i].offset)
          THEN IF i = 1 \/ mod32_lt(EltEnd(q[i - 1]), hdr.offset)
               THEN [rc |-> 0, queue |-> InsertAt(q, i, new)]
               ELSE [rc |-> -1, queue |-> q]
     ELSE PlaceBlock(q, i + 1, block, hdr)

\* The SYN test without its offset clause: a SYN block is held against the
\* first queue element only.
SynRejected_any_offset(q, hdr) ==
  /\ HasFlag(hdr.flags, RR_F_SYN)
  /\ Len(q) > 0
  /\ \/ HasFlag(q[1].flags, RR_F_SYN)
     \/ ~mod32_le(U32(hdr.offset + hdr.length), q[1].offset)

\* "SYN must occur at offset zero, may not be duplicated, and if we already
\* have anything on the reassembly queue, it must come logically after this
\* block."
SynRejected(q, hdr) ==
  /\ HasFlag(hdr.flags, RR_F_SYN)
  /\ \/ hdr.offset > 0
     \/ /\ Len(q) > 0
        /\ \/ HasFlag(q[1].flags, RR_F_SYN)
           \/ ~mod32_le(U32(hdr.offset + hdr.length), q[1].offset)

\* "FIN may not be duplicated and must occur logically after everything
\* we've already received."
FinRejected(q, hdr) ==
  /\ HasFlag(hdr.flags, RR_F_FIN)
  /\ Len(q) > 0
  /\ \/ HasFlag(q[Len(q)].flags, RR_F_FIN)
     \/ ~mod32_le(EltEnd(q[Len(q)]), hdr.offset)

\* "Non-SYN/FIN must come after any SYN block presently in the queue and
\* before any FIN block presently in the queue."
PlainRejected(q, hdr) ==
  /\ ~HasFlag(hdr.flags, RR_F_SYN)
  /\ ~HasFlag(hdr.flags, RR_F_FIN)
  /\ Len(q) > 0
  /\ \/ /\ HasFlag(q[1].flags, RR_F_SYN)
        /\ ~mod32_le(EltEnd(q[1]), hdr.offset)
     \/ /\ HasFlag(q[Len(q)].flags, RR_F_FIN)
        /\ ~mod32_le(U32(hdr.offset + hdr.length), q[Len(q)].offset)

\* rr_reassemble_block that queues a chaff block which carries SYN or FIN
\* with its length and its contents.
rr_reassemble_block_keeps_chaff(q, block, hdr0) ==
  IF /\ HasFlag(hdr0.flags, RR_F_CHAFF)
     /\ ~HasFlag(hdr0.flags, RR_F_SYN)
     /\ ~HasFlag(hdr0.flags, RR_F_FIN)
  THEN [rc |-> 0, queue |-> q]
  ELSE IF SynRejected(q, hdr0) \/ FinRejected(q, hdr0) \/ PlainRejected(q, hdr0)
       THEN [rc |-> -1, queue |-> q]
       ELSE PlaceBlock(q, 1, block, hdr0)

\* rr_reassemble_block(c, block, hdr) on reassembly queue q.
rr_reassemble_block(q, block, hdr0) ==
  LET chaff == HasFlag(hdr0.flags, RR_F_CHAFF)
      hdr == IF chaff THEN [hdr0 EXCEPT !.length = 0] ELSE hdr0
      data == IF chaff THEN <<>> ELSE block
  IN IF chaff /\ ~HasFlag(hdr0.flags, RR_F_SYN) /\ ~HasFlag(hdr0.flags, RR_F_FIN)
     THEN [rc |-> 0, queue |-> q]
     ELSE IF SynRejected(q, hdr) \/ FinRejected(q, hdr) \/ PlainRejected(q, hdr)
          THEN [rc |-> -1, queue |-> q]
          ELSE PlaceBlock(q, 1, data, hdr)

\* ------------------------------------------------------------------------
\* State
\* ------------------------------------------------------------------------

\* Downstream connections of one circuit (the down-address lines of the
\* configuration).
NDown == 2

\* Blocks the network may deliver in one run of the receiving side.
MaxBlocks == 4

\* conn->circuit == NULL
NULL == 0

\* Two processes talk to each other.  Connection c of the client and
\* connection Peer(c) of the server are the two ends of one downstream.
ClientConns == 1 .. NDown

ServerConns == (NDown + 1) .. (2 * NDown)

ConnIds == ClientConns \cup ServerConns

Peer(c) == IF c \in ClientConns THEN c + NDown ELSE c - NDown

\* Circuit handles (circuit_t pointers).  The server creates its circuits on
\* demand, at most one per connection; the client's circuit is the last
\* handle.
ServerHandles == 1 .. NDown

ClientHandle == NDown + 1

Handles == 1 .. ClientHandle

VARIABLES
  circuits,       \* handle -> roundrobin_circuit_t (and its circuit_t part)
  conns,          \* connection -> conn_t
  circuit_table,  \* the server's rr_circuit_table: a set of entries
  aborted,        \* process -> an obfs_assert has failed in it
  nwire,          \* blocks put on the wire by the network environment
  last            \* the handler call made by the last step, and its result

vars ==
  <<circuits, conns, circuit_table, aborted, nwire, enomem, apache, last>>

\* roundrobin_circuit_create: xzalloc'ed, with an empty reassembly queue,
\* an empty xmit_pending and an empty downstreams list.  state is "none" for
\* an unused handle, "open" for a circuit and "freed" after
\* roundrobin_circuit_free; up_input and up_output are the two buffers of
\* c->up_buffer; recv_eof counts the calls of circuit_recv_eof; axe_timer
\* says that the axe timer is armed.  Five fields are history: up_read
\* counts the bytes the upstream has written to up_input so far, emitted
\* lists the headers of the blocks the circuit has put into outbound buffers,
\* in order, targets lists the connections they were put on, attached is the
\* set of connections that were ever in downstreams, and armed says that the
\* axe timer has been armed at some time.
roundrobin_circuit_create ==
  [ state |-> "open",
    reassembly_queue |-> <<>>,
    xmit_pending |-> <<>>,
    downstreams |-> <<>>,
    circuit_id |-> 0,
    send_offset |-> 0,
    recv_offset |-> 0,
    next_block_size |-> 0,
    next_down |-> 0,
    received_syn |-> FALSE,
    received_fin |-> FALSE,
    sent_syn |-> FALSE,
    sent_fin |-> FALSE,
    up_input |-> <<>>,
    up_output |-> <<>>,
    recv_eof |-> 0,
    axe_timer |-> FALSE,
    up_read |-> 0,
    emitted |-> <<>>,
    targets |-> <<>>,
    attached |-> {},
    armed |-> FALSE ]

NoCircuit == [roundrobin_circuit_create EXCEPT !.state = "none"]

\* roundrobin_conn_create: no private state.  open is false once the
\* connection has been closed; unread says that bytes have arrived since the
\* last read callback; sent_eof that conn_send_eof has been called, got_eof
\* that the peer's end of stream has been seen.
roundrobin_conn_create ==
  [ circuit |-> NULL,
    inbound |-> <<>>,
    outbound |-> <<>>,
    open |-> TRUE,
    unread |-> FALSE,
    sent_eof |-> FALSE,
    got_eof |-> FALSE ]

\* What a step records of the handler call it made: the handler, its
\* connection and circuit, the value returned, the circuit as the call found
\* it (was), every block handled (header, value returned for it, reassembly
\* queue before and after) and the elements written upstream.
Call(op, conn, circuit, rc, was, blocks, delivered) ==
  [ op |-> op, conn |-> conn, circuit |-> circuit, rc |-> rc, was |-> was,
    blocks |-> blocks, delivered |-> delivered ]

NoCall == Call("none", NULL, NULL, 0, NoCircuit, <<>>, <<>>)

\* The three parts of the state that the receive path changes, as one value.
State(cs, cn, tb, ab) ==
  [circuits |-> cs, conns |-> cn, table |-> tb, aborted |-> ab]

\* ------------------------------------------------------------------------
\* Receive path
\* ------------------------------------------------------------------------

\* rr_push_to_upstream as it would be with the test of received_syn left
\* out (received_syn is set when the element carries SYN, and nothing is
\* held back for it): the fault that C3 excludes.
rr_push_to_upstream_no_syn_test(ckt) ==
  LET q == ckt.reassembly_queue
      none == [ckt |-> ckt, failed |-> FALSE, delivered |-> <<>>]
  IN IF q = <<>> \/ ckt.recv_offset # q[1].offset
     THEN none
     ELSE LET ready == q[1]
              fin == HasFlag(ready.flags, RR_F_FIN)
              offset == U32(ckt.recv_offset + ready.length)
              written == [ckt EXCEPT
                            !.received_syn = @ \/ HasFlag(ready.flags, RR_F_SYN),
                            !.up_output = BufAdd(@, ready.data),
                            !.recv_offset = offset]
              fin_ok == ~ckt.received_fin /\ Len(q) = 1
              eof == IF fin
                     THEN [written EXCEPT !.received_fin = TRUE,
                                          !.recv_eof = @ + 1]
                     ELSE written
              gap_ok == Len(q) = 1 \/ q[2].offset # offset
              what == <<[elt |-> ready, received_syn |-> ckt.received_syn,
                         received_fin |-> ckt.received_fin]>>
          IN IF fin /\ ~fin_ok
             THEN [ckt |-> written, failed |-> TRUE, delivered |-> what]
             ELSE IF ~gap_ok
             THEN [ckt |-> eof, failed |-> TRUE, delivered |-> what]
             ELSE [ckt |-> [eof EXCEPT !.reassembly_queue = Tail(q)],
                   failed |-> FALSE, delivered |-> what]

\* rr_push_to_upstream on circuit record ckt: [ckt, failed, delivered].
\* failed says that one of its three obfs_asserts does not hold (the process
\* aborts at that point); delivered is the element flushed, if any, with the
\* flags the circuit had when the function was entered.
rr_push_to_upstream(ckt) ==
  LET q == ckt.reassembly_queue
      none == [ckt |-> ckt, failed |-> FALSE, delivered |-> <<>>]
  IN IF q = <<>> \/ ckt.recv_offset # q[1].offset
     THEN none
     ELSE IF ~ckt.received_syn /\ ~HasFlag(q[1].flags, RR_F_SYN)
     THEN none
     ELSE LET ready == q[1]
              fin == HasFlag(ready.flags, RR_F_FIN)
              offset == U32(ckt.recv_offset + ready.length)
              written == [ckt EXCEPT !.received_syn = TRUE,
                                     !.up_output = BufAdd(@, ready.data),
                                     !.recv_offset = offset]
              fin_ok == ~ckt.received_fin /\ Len(q) = 1
              eof == IF fin
                     THEN [written EXCEPT !.received_fin = TRUE,
                                          !.recv_eof = @ + 1]
                     ELSE written
              gap_ok == Len(q) = 1 \/ q[2].offset # offset
              what == <<[elt |-> ready, received_syn |-> ckt.received_syn,
                         received_fin |-> ckt.received_fin]>>
          IN IF fin /\ ~fin_ok
             THEN [ckt |-> written, failed |-> TRUE, delivered |-> what]
             ELSE IF ~gap_ok
             THEN [ckt |-> eof, failed |-> TRUE, delivered |-> what]
             ELSE [ckt |-> [eof EXCEPT !.reassembly_queue = Tail(q)],
                   failed |-> FALSE, delivered |-> what]

\* conn_close of connection c (connections.c): the connection is shut and
\* its buffers are freed.
conn_close(cn, c) ==
  [cn EXCEPT ![c].open = FALSE, ![c].inbound = <<>>, ![c].outbound = <<>>,
             ![c].unread = FALSE]

RECURSIVE CloseAll(_, _)
CloseAll(cn, list) ==
  IF list = <<>> THEN cn
  ELSE CloseAll(conn_close([cn EXCEPT ![Head(list)].circuit = NULL],
                           Head(list)),
                Tail(list))

\* roundrobin_circuit_free of circuit h.  Every downstream is detached and
\* closed; the table entry keyed by the circuit's own circuit_id field is
\* removed, and only if that field is not zero.  The memory of the circuit
\* is released: the record keeps what it held, marked "freed".
roundrobin_circuit_free(st, h) ==
  LET ckt == st.circuits[h]
  IN [st EXCEPT
        !.conns = CloseAll(@, ckt.downstreams),
        !.table = IF ckt.circuit_id # 0
                  THEN {e \in @ : e.circuit_id # ckt.circuit_id}
                  ELSE @,
        !.circuits = [@ EXCEPT ![h].state = "freed"]]

\* circuit_add_downstream that leaves the axe timer as it is.
circuit_add_downstream_keeps_timer(st, h, c) ==
  [st EXCEPT !.conns = [@ EXCEPT ![c].circuit = h],
             !.circuits = [@ EXCEPT ![h].downstreams = Append(@, c),
                                    ![h].attached = @ \cup {c}]]

\* circuit_add_downstream (connections.c) and
\* roundrobin_circuit_add_downstream: the connection is bound to the circuit
\* and appended to its downstreams list, and the axe timer is disarmed.
circuit_add_downstream(st, h, c) ==
  [st EXCEPT !.conns = [@ EXCEPT ![c].circuit = h],
             !.circuits = [@ EXCEPT ![h].downstreams = Append(@, c),
                                    ![h].attached = @ \cup {c},
                                    ![h].axe_timer = FALSE]]

\* rr_find_or_make_circuit(conn, circuit_id) on the server.  A new circuit
\* is entered in the table under circuit_id; its own circuit_id field is left
\* as roundrobin_circuit_create made it.  An entry whose circuit has been
\* freed is a dangling pointer: using it is undefined, and ub chooses between
\* a crash and the freed memory still reading as it was.
rr_find_or_make_circuit(st, c, circuit_id, ub) ==
  LET found == {e \in st.table : e.circuit_id = circuit_id}
      fresh == CHOOSE h \in ServerHandles :
                 /\ st.circuits[h].state = "none"
                 /\ \A g \in ServerHandles :
                      st.circuits[g].state = "none" => h <= g
  IN IF found # {}
     THEN LET h == (CHOOSE e \in found : TRUE).circuit
          IN IF st.circuits[h].state = "freed" /\ ub = "abort"
             THEN [st EXCEPT !.aborted = [@ EXCEPT !["server"] = TRUE]]
             ELSE circuit_add_downstream(st, h, c)
     ELSE circuit_add_downstream(
            [st EXCEPT
               !.circuits = [@ EXCEPT ![fresh] = roundrobin_circuit_create],
               !.table = @ \cup {[circuit_id |-> circuit_id,
                                  circuit |-> fresh]}],
            fresh, c)

\* The for (;;) loop of roundrobin_conn_recv on reassembly queue q of a
\* circuit whose circuit_id field is cid, with the blocks of input in the
\* inbound buffer: [rc, queue, input, blocks], where blocks lists every
\* header handled with the value returned for it and the queue before and
\* after.
RECURSIVE RecvLoop(_, _, _, _)

\* The end of one turn of the loop: r is what rr_reassemble_block returned
\* for the block with header hdr.
RecvReassembled(q, cid, input, blocks, hdr, r) ==
  IF r.rc # 0
  THEN [rc |-> -1, queue |-> r.queue, input |-> Tail(input),
        blocks |-> Append(blocks, [hdr |-> hdr, rc |-> -1, queue |-> q,
                                   after |-> r.queue])]
  ELSE RecvLoop(r.queue, cid, Tail(input),
                Append(blocks, [hdr |-> hdr, rc |-> 0, queue |-> q,
                                after |-> r.queue]))

\* One turn of the loop in which a block for another circuit is drained from
\* the buffer before -1 is returned.
RecvPeeked_drains_first(q, cid, input, blocks, hdr) ==
  IF WireLen(input) < RR_MIN_BLOCK + hdr.length
  THEN [rc |-> 0, queue |-> q, input |-> input, blocks |-> blocks]
  ELSE IF cid # hdr.ckt_id
  THEN [rc |-> -1, queue |-> q, input |-> Tail(input),
        blocks |-> Append(blocks, [hdr |-> hdr, rc |-> -1, queue |-> q,
                                   after |-> q])]
  ELSE RecvReassembled(q, cid, input, blocks, hdr,
                       rr_reassemble_block(q, Head(input).payload, hdr))

\* One turn of the loop from the point where the header hdr has been peeked.
RecvPeeked(q, cid, input, blocks, hdr) ==
  IF WireLen(input) < RR_MIN_BLOCK + hdr.length
  THEN [rc |-> 0, queue |-> q, input |-> input, blocks |-> blocks]
  ELSE IF cid # hdr.ckt_id
  THEN [rc |-> -1, queue |-> q, input |-> input,
        blocks |-> Append(blocks, [hdr |-> hdr, rc |-> -1, queue |-> q,
                                   after |-> q])]
  ELSE RecvReassembled(q, cid, input, blocks, hdr,
                       rr_reassemble_block(q, Head(input).payload, hdr))

RecvLoop(q, cid, input, blocks) ==
  IF WireLen(input) < RR_MIN_BLOCK
  THEN [rc |-> 0, queue |-> q, input |-> input, blocks |-> blocks]
  ELSE RecvPeeked(q, cid, input, blocks, rr_peek_header(Head(input).header))

\* The end of roundrobin_conn_recv: push is what rr_push_to_upstream did
\* after the loop has ended with loop.
RecvPushed(st, c, h, ckt, loop, push) ==
  [rc |-> 0,
   st |-> [st EXCEPT
             !.conns = [@ EXCEPT ![c].inbound = loop.input],
             !.circuits = [@ EXCEPT ![h] = push.ckt],
             !.aborted = [@ EXCEPT !["server"] = @ \/ push.failed]],
   call |-> Call("conn_recv", c, h, 0, ckt, loop.blocks, push.delivered)]

\* roundrobin_conn_recv from the end of its loop on.
RecvLooped(st, c, h, ckt, loop) ==
  IF loop.rc # 0
  THEN [rc |-> -1,
        st |-> [st EXCEPT
                  !.conns = [@ EXCEPT ![c].inbound = loop.input],
                  !.circuits = [@ EXCEPT ![h].reassembly_queue = loop.queue]],
        call |-> Call("conn_recv", c, h, -1, ckt, loop.blocks, <<>>)]
  ELSE RecvPushed(st, c, h, ckt, loop,
                  rr_push_to_upstream(
                    [ckt EXCEPT !.reassembly_queue = loop.queue]))

\* roundrobin_conn_recv from "c = conn->circuit" on, for the circuit ckt
\* with handle h.
RecvCircuit(st, c, h, ckt) ==
  RecvLooped(st, c, h, ckt,
             RecvLoop(ckt.reassembly_queue, ckt.circuit_id,
                      st.conns[c].inbound, <<>>))

\* roundrobin_conn_recv once the connection has its circuit.
RecvBound(st, c) ==
  IF st.aborted["server"]
  THEN [rc |-> 0, st |-> st,
        call |-> Call("conn_recv", c, NULL, 0, NoCircuit, <<>>, <<>>)]
  ELSE RecvCircuit(st, c, st.conns[c].circuit,
                   st.circuits[st.conns[c].circuit])

\* roundrobin_conn_recv(conn) for connection c: [rc, st, call].
ConnRecv(st, c, ub) ==
  IF st.conns[c].circuit # NULL
  THEN RecvBound(st, c)
  ELSE IF WireLen(st.conns[c].inbound) < RR_MIN_BLOCK
  THEN [rc |-> 0, st |-> st,
        call |-> Call("conn_recv", c, NULL, 0, NoCircuit, <<>>, <<>>)]
  ELSE RecvBound(
         rr_find_or_make_circuit(
           st, c, rr_peek_header(Head(st.conns[c].inbound).header).ckt_id,
           ub),
         c)

\* What the caller of a failed roundrobin_conn_recv does with connection c
\* (the protocol error of the specification's error handling design): the
\* owning circuit is terminated and all its downstreams are closed; a
\* connection without a circuit is closed.  Terminating a circuit that has
\* already been freed frees it a second time, which is undefined.
ProtocolError(st, c, ub) ==
  LET h == st.conns[c].circuit
  IN IF h = NULL
     THEN [st EXCEPT !.conns = conn_close(@, c)]
     ELSE IF st.circuits[h].state = "open"
     THEN roundrobin_circuit_free(st, h)
     ELSE IF ub = "abort"
     THEN [st EXCEPT !.aborted = [@ EXCEPT !["server"] = TRUE]]
     ELSE [st EXCEPT !.conns = CloseAll(@, st.circuits[h].downstreams)]

\* The outcomes of undefined behaviour that the model follows.
UBOutcomes == {"abort", "intact"}

\* ------------------------------------------------------------------------
\* Actions of the receiving process
\* ------------------------------------------------------------------------

\* The network delivers one more block, with header hdr, to the inbound
\* buffer of connection c.  Its payload is hdr.length bytes of its own.
net_arrive(c, hdr) ==
  /\ ~aborted["server"]
  /\ conns[c].open
  /\ nwire' = nwire + 1
  /\ conns' = [conns EXCEPT
       ![c].inbound = Append(@, WireBlock(hdr,
            IF hdr.length = 0 THEN <<>>
            ELSE <<Run(nwire + 1, hdr.offset, 0, hdr.length)>>)),
       ![c].unread = TRUE]
  /\ last' = Call("net_arrive", c, conns[c].circuit, 0, NoCircuit, <<>>, <<>>)
  /\ UNCHANGED <<apache, enomem, circuits, circuit_table, aborted>>

\* Whether a read on connection c runs into undefined behaviour: the
\* connection is bound to a freed circuit, or it is loose and the entry its
\* first block selects is dangling.
ReadsFreed(c) ==
  IF conns[c].circuit # NULL
  THEN circuits[conns[c].circuit].state = "freed"
  ELSE /\ WireLen(conns[c].inbound) >= RR_MIN_BLOCK
       /\ \E e \in circuit_table :
            /\ e.circuit_id = rr_peek_header(Head(conns[c].inbound).header).ckt_id
            /\ circuits[e.circuit].state = "freed"

\* The result r of a receive handler becomes the state.
Received(r) ==
  /\ circuits' = r.st.circuits
  /\ conns' = r.st.conns
  /\ circuit_table' = r.st.table
  /\ aborted' = r.st.aborted
  /\ last' = r.call
  /\ UNCHANGED <<apache, enomem, nwire>>

\* What the caller does with the result r of roundrobin_conn_recv on
\* connection c.
Handle(r, c, ub) ==
  IF r.rc # 0 THEN [r EXCEPT !.st = ProtocolError(@, c, ub)] ELSE r

\* The read callback of connection c: roundrobin_conn_recv, and the error
\* handling of its caller when it returns -1.
roundrobin_conn_recv(c, ub) ==
  /\ ~aborted["server"]
  /\ conns[c].open
  /\ conns[c].unread
  /\ ub = "intact" \/ ReadsFreed(c)
  /\ Received(Handle(ConnRecv(State(circuits,
                                    [conns EXCEPT ![c].unread = FALSE],
                                    circuit_table, aborted),
                              c, ub),
                     c, ub))

\* ------------------------------------------------------------------------
\* Specification of the receiving side: any blocks, in any order
\* ------------------------------------------------------------------------

\* Headers of the blocks the network may deliver: every combination of a few
\* offsets with SYN and FIN for data blocks of one length, and single blocks
\* that are chaff, empty, oversized, flagged with a reserved bit, or for
\* another circuit.
RecvOffsets == {0, 5, 10, 15}

RecvFlags == {0, RR_F_SYN, RR_F_FIN, RR_F_SYN + RR_F_FIN}

RecvLength == 10

RecvHeaders ==
  { Header(0, o, RecvLength, f) : o \in RecvOffsets, f \in RecvFlags }
  \cup { Header(0, 0, RecvLength, RR_F_CHAFF),
         Header(0, 0, RecvLength, RR_F_CHAFF + RR_F_SYN),
         Header(0, 10, RecvLength, RR_F_CHAFF + RR_F_FIN),
         Header(0, 10, 0, 0),
         Header(0, 10, RR_MAX_BLOCK, 0),
         Header(0, 10, RR_MAX_BLOCK + 1, 0),
         Header(0, 10, RecvLength, 8),
         Header(1, 0, RecvLength, RR_F_SYN) }

Init ==
  /\ circuits = [h \in Handles |-> NoCircuit]
  /\ conns = [c \in ConnIds |-> roundrobin_conn_create]
  /\ circuit_table = {}
  /\ aborted = [p \in {"client", "server"} |-> FALSE]
  /\ nwire = 0
  /\ enomem = {}
  /\ apache = [side \in Sides |-> NoConfig]
  /\ last = NoCall

\* The blocks all travel on one downstream connection: what the reassembly
\* queue sees does not depend on the connection that carried a block.
RecvConns == {NDown + 1}

\* The last block of a run stays in the inbound buffer for good (nothing
\* follows it, and the loop of roundrobin_conn_recv takes a block only when
\* RR_WIRE_HDR_LEN more bytes are there): one header stands for all.
LastHeader == Header(0, 0, 0, 0)

Next ==
  \E c \in RecvConns :
    \/ \E hdr \in RecvHeaders : nwire + 1 < MaxBlocks /\ net_arrive(c, hdr)
    \/ nwire + 1 = MaxBlocks /\ net_arrive(c, LastHeader)
    \/ \E ub \in UBOutcomes : roundrobin_conn_recv(c, ub)

Spec == Init /\ [][Next]_vars

\* ------------------------------------------------------------------------
\* Transmit path
\* ------------------------------------------------------------------------

\* Block sizes that random_range(RR_MIN_BLOCK, RR_MAX_BLOCK) may return: the
\* two ends of the range and one size between.
MidBlock == 64

random_range == {RR_MIN_BLOCK, MidBlock, RR_MAX_BLOCK}

\* rr_send_block(dest, source, block, circuit_id, offset, length, flags):
\* [failed, rc, dest, source].  block is the caller's scratch buffer, empty
\* at every call; failed says that obfs_assert(evbuffer_get_length(dest) >=
\* length) does not hold.  When an evbuffer call fails the function returns
\* -1 with dest and source as they were.  Otherwise the header and the first
\* length bytes of source are appended to dest and drained from source.
rr_send_block(dest, source, circuit_id, offset, length, flags) ==
  IF WireLen(dest) < length
  THEN [failed |-> TRUE, rc |-> 0, dest |-> dest, source |-> source]
  ELSE IF "send_block" \in enomem
  THEN [failed |-> FALSE, rc |-> -1, dest |-> dest, source |-> source]
  ELSE [failed |-> FALSE, rc |-> 0,
        dest |-> Append(dest, WireBlock(Header(circuit_id, offset, length, flags),
                                        BufTake(source, length))),
        source |-> BufDrain(source, length)]

\* ckt->next_down++; if (ckt->next_down == smartlist_len(ckt->downstreams))
\* ckt->next_down = 0;
NextDown(ckt) ==
  IF U16(ckt.next_down + 1) = Len(ckt.downstreams)
  THEN 0
  ELSE U16(ckt.next_down + 1)

\* smartlist_get(ckt->downstreams, ckt->next_down): the connections the call
\* may return.  With next_down past the end of the list the read is out of
\* bounds: the process aborts (NULL), or the slot holds a connection that was
\* in the list before.
smartlist_get(ckt) ==
  IF ckt.next_down < Len(ckt.downstreams)
  THEN {ckt.downstreams[ckt.next_down + 1]}
  ELSE {NULL} \cup ckt.attached

\* rr_send_blocks(c, at_eof) on circuit record ckt with the connections cn:
\* the set of results [ckt, conns, failed, rc], one for each sequence of
\* values random_range returns.  failed says that the process has aborted: an
\* obfs_assert of rr_send_block, or smartlist_get past the end of the list
\* giving no connection or one that has been freed; rc is the value returned,
\* -1 when rr_send_block has returned -1.
RECURSIVE rr_send_blocks(_, _, _)

\* The rest of one turn of the loop, sent being what rr_send_block returned
\* for the block with header hdr on connection target.
SentBlock(ckt, cn, at_eof, target, hdr, sent) ==
  IF sent.failed
  THEN {[ckt |-> ckt, conns |-> cn, failed |-> TRUE, rc |-> 0]}
  ELSE IF sent.rc # 0
  THEN {[ckt |-> ckt, conns |-> cn, failed |-> FALSE, rc |-> -1]}
  ELSE UNION {
         rr_send_blocks(
           [ckt EXCEPT !.xmit_pending = sent.source,
                       !.next_down = NextDown(ckt),
                       !.send_offset = U32(@ + hdr.length),
                       !.next_block_size = r,
                       !.sent_syn = TRUE,
                       !.emitted = Append(@, hdr),
                       !.targets = Append(@, target)],
           [cn EXCEPT ![target].outbound = sent.dest],
           at_eof) : r \in random_range }

\* One turn of the loop from smartlist_get on, target being what it returned.
SendTo(ckt, cn, at_eof, target, hdr) ==
  IF target = NULL
  THEN {[ckt |-> ckt, conns |-> cn, failed |-> TRUE, rc |-> 0]}
  ELSE IF ~cn[target].open
  THEN {[ckt |-> ckt, conns |-> cn, failed |-> TRUE, rc |-> 0]}
  ELSE SentBlock(ckt, cn, at_eof, target, hdr,
                 rr_send_block(cn[target].outbound, ckt.xmit_pending,
                               hdr.ckt_id, hdr.offset, hdr.length, hdr.flags))

rr_send_blocks(ckt, cn, at_eof) ==
  LET avail == BufLen(ckt.xmit_pending)
      syn == IF ckt.sent_syn THEN 0 ELSE RR_F_SYN
      final == at_eof /\ avail > 0 /\ avail <= ckt.next_block_size
      length == IF final THEN avail ELSE ckt.next_block_size
      flags == IF final THEN BitOr(syn, RR_F_FIN) ELSE syn
  IN IF ~final /\ avail < ckt.next_block_size
     THEN {[ckt |-> ckt, conns |-> cn, failed |-> FALSE, rc |-> 0]}
     ELSE UNION {
            SendTo([ckt EXCEPT !.next_block_size = length], cn, at_eof, d,
                   Header(ckt.circuit_id, ckt.send_offset, length, flags))
            : d \in smartlist_get(ckt) }

\* evbuffer_add_buffer(ckt->xmit_pending, bufferevent_get_input(c->up_buffer))
TakeUpstream(ckt) ==
  [ckt EXCEPT !.xmit_pending = BufAdd(@, ckt.up_input), !.up_input = <<>>]

\* roundrobin_circuit_send(c): the set of results [ckt, conns, failed].
CircuitSend(ckt, cn) == rr_send_blocks(TakeUpstream(ckt), cn, FALSE)

\* conn_send_eof on every connection of list.
RECURSIVE SendEofAll(_, _)
SendEofAll(cn, list) ==
  IF list = <<>> THEN cn
  ELSE SendEofAll([cn EXCEPT ![Head(list)].sent_eof = TRUE], Tail(list))

\* The else branch of roundrobin_circuit_send_eof: one chaff block of
\* next_block_size random bytes carries the FIN.  SentChaff is the branch
\* after rr_send_block has returned sent for connection d, ChaffTo the branch
\* from smartlist_get on.
SentChaff(ckt, cn, d, hdr, sent) ==
  IF sent.failed
  THEN {[ckt |-> ckt, conns |-> cn, failed |-> TRUE, rc |-> 0]}
  ELSE IF sent.rc # 0
  THEN {[ckt |-> ckt, conns |-> cn, failed |-> FALSE, rc |-> -1]}
  ELSE { [ckt |-> [ckt EXCEPT !.next_down = NextDown(ckt),
                              !.send_offset = U32(@ + hdr.length),
                              !.next_block_size = r,
                              !.emitted = Append(@, hdr),
                              !.targets = Append(@, d)],
          conns |-> [cn EXCEPT ![d].outbound = sent.dest],
          failed |-> FALSE, rc |-> 0] : r \in random_range }

ChaffTo(ckt, cn, d, hdr) ==
  IF d = NULL
  THEN {[ckt |-> ckt, conns |-> cn, failed |-> TRUE, rc |-> 0]}
  ELSE IF ~cn[d].open
  THEN {[ckt |-> ckt, conns |-> cn, failed |-> TRUE, rc |-> 0]}
  ELSE SentChaff(ckt, cn, d, hdr,
                 rr_send_block(cn[d].outbound,
                               IF hdr.length = 0 THEN <<>>
                               ELSE <<Run(-1, hdr.offset, 0, hdr.length)>>,
                               hdr.ckt_id, hdr.offset, hdr.length, hdr.flags))

SendChaffFin(ckt, cn) ==
  UNION { ChaffTo(ckt, cn, d,
                  Header(ckt.circuit_id, ckt.send_offset, ckt.next_block_size,
                         BitOr(RR_F_FIN, RR_F_CHAFF)))
          : d \in smartlist_get(ckt) }

\* roundrobin_circuit_send_eof without its test for an empty downstreams
\* list.
CircuitSendEof_without_empty_test(ckt, cn) ==
  LET moved == TakeUpstream(ckt)
      outs == IF BufLen(moved.xmit_pending) > 0
              THEN rr_send_blocks(moved, cn, TRUE)
              ELSE SendChaffFin(moved, cn)
  IN { IF o.failed \/ o.rc # 0 THEN o
       ELSE [o EXCEPT !.ckt = [@ EXCEPT !.sent_fin = TRUE],
                      !.conns = SendEofAll(@, o.ckt.downstreams)]
       : o \in outs }

\* roundrobin_circuit_send_eof(c): the set of results [ckt, conns, failed].
CircuitSendEof(ckt, cn) ==
  LET moved == TakeUpstream(ckt)
      outs == IF BufLen(moved.xmit_pending) > 0
              THEN rr_send_blocks(moved, cn, TRUE)
              ELSE SendChaffFin(moved, cn)
  IN IF Len(ckt.downstreams) = 0
     THEN {[ckt |-> [ckt EXCEPT !.sent_fin = TRUE], conns |-> cn,
            failed |-> FALSE, rc |-> 0]}
     ELSE { IF o.failed \/ o.rc # 0 THEN o
            ELSE [o EXCEPT !.ckt = [@ EXCEPT !.sent_fin = TRUE],
                           !.conns = SendEofAll(@, o.ckt.downstreams)]
            : o \in outs }

\* circuit_arm_axe_timer(c, 100) on circuit h.
circuit_arm_axe_timer(st, h) ==
  [st EXCEPT !.circuits = [@ EXCEPT ![h].axe_timer = TRUE,
                                    ![h].armed = TRUE]]

\* roundrobin_circuit_drop_downstream that closes the circuit whenever the
\* last downstream has gone.
roundrobin_circuit_drop_downstream_always_closes(st, h, c) ==
  LET ckt == st.circuits[h]
      left == SelectSeq(ckt.downstreams, LAMBDA d : d # c)
      dropped == [st EXCEPT !.conns = [@ EXCEPT ![c].circuit = NULL],
                            !.circuits = [@ EXCEPT ![h].downstreams = left]]
  IN IF Len(left) > 0
     THEN dropped
     ELSE roundrobin_circuit_free(dropped, h)

\* roundrobin_circuit_drop_downstream that arms the axe timer whenever the
\* last downstream has gone.
roundrobin_circuit_drop_downstream_always_arms(st, h, c) ==
  LET ckt == st.circuits[h]
      left == SelectSeq(ckt.downstreams, LAMBDA d : d # c)
      dropped == [st EXCEPT !.conns = [@ EXCEPT ![c].circuit = NULL],
                            !.circuits = [@ EXCEPT ![h].downstreams = left]]
  IN IF Len(left) > 0
     THEN dropped
     ELSE circuit_arm_axe_timer(dropped, h)

\* roundrobin_circuit_drop_downstream, with the unbinding of the connection
\* that circuit_drop_downstream (connections.c) does around it.
roundrobin_circuit_drop_downstream(st, h, c) ==
  LET ckt == st.circuits[h]
      left == SelectSeq(ckt.downstreams, LAMBDA d : d # c)
      dropped == [st EXCEPT !.conns = [@ EXCEPT ![c].circuit = NULL],
                            !.circuits = [@ EXCEPT ![h].downstreams = left]]
  IN IF Len(left) > 0
     THEN dropped
     ELSE IF ckt.sent_fin /\ ckt.received_fin
     THEN roundrobin_circuit_free(dropped, h)
     ELSE circuit_arm_axe_timer(dropped, h)

\* ------------------------------------------------------------------------
\* Actions of the sending process and of the network between the two
\* ------------------------------------------------------------------------

\* The client's circuit is made and its first n outgoing connections are
\* attached to it (the client's connections are attached by configuration).
RECURSIVE AttachAll(_, _, _)
AttachAll(st, h, list) ==
  IF list = <<>> THEN st
  ELSE AttachAll(circuit_add_downstream(st, h, Head(list)), h, Tail(list))

client_connect(n) ==
  /\ circuits[ClientHandle].state = "none"
  /\ LET made == State([circuits EXCEPT ![ClientHandle] =
                          roundrobin_circuit_create],
                       conns, circuit_table, aborted)
         st == AttachAll(made, ClientHandle, [i \in 1 .. n |-> i])
     IN /\ circuits' = st.circuits
        /\ conns' = st.conns
  /\ last' = Call("client_connect", NULL, ClientHandle, 0, NoCircuit, <<>>, <<>>)
  /\ UNCHANGED <<apache, enomem, circuit_table, aborted, nwire>>

\* Bytes the upstream may hand over at a time, and the longest stream.
SendChunks == {10, 32}

MaxStream == 42

\* A stream handed over in one piece: four blocks of MidBlock bytes.
BulkStream == 4 * MidBlock

\* The process that owns circuit handle h.
Process(h) == IF h = ClientHandle THEN "client" ELSE "server"

\* The upstream of circuit h writes n more bytes of the stream to the
\* circuit's input buffer.
upstream_data(h, n) ==
  /\ circuits[h].state = "open"
  /\ ~aborted[Process(h)]
  /\ ~circuits[h].sent_fin
  /\ circuits' = [circuits EXCEPT
       ![h].up_input = Append(@, Run(0, 0, circuits[h].up_read, n)),
       ![h].up_read = @ + n]
  /\ last' = Call("upstream_data", NULL, h, 0, NoCircuit, <<>>, <<>>)
  /\ UNCHANGED <<apache, enomem, conns, circuit_table, aborted, nwire>>

\* What the caller of a transmit handler that has returned -1 does with
\* circuit h (the specification's error handling design: the dispatcher
\* treats any failure as fatal to the circuit): the circuit is terminated and
\* all its downstreams are closed.
TransmitError(st, h) == roundrobin_circuit_free(st, h)

\* The state st that a transmit handler of circuit h and its caller have
\* made becomes the state; rc is the value the handler returned.
TransmittedTo(op, h, rc, st) ==
  /\ circuits' = st.circuits
  /\ conns' = st.conns
  /\ circuit_table' = st.table
  /\ aborted' = st.aborted
  /\ last' = Call(op, NULL, h, rc, circuits[h], <<>>, <<>>)
  /\ UNCHANGED <<apache, enomem, nwire>>

\* The result o of a transmit handler of circuit h becomes the state.
Transmitted(op, h, o) ==
  TransmittedTo(op, h, o.rc,
                IF o.rc # 0
                THEN TransmitError(
                       State([circuits EXCEPT ![h] = o.ckt], o.conns,
                             circuit_table, aborted), h)
                ELSE State([circuits EXCEPT ![h] = o.ckt], o.conns,
                           circuit_table,
                           [aborted EXCEPT ![Process(h)] = o.failed]))

\* The upstream read callback of circuit h: roundrobin_circuit_send.
roundrobin_circuit_send(h) ==
  /\ circuits[h].state = "open"
  /\ ~aborted[Process(h)]
  /\ ~circuits[h].sent_fin
  /\ circuits[h].up_input # <<>>
  /\ \E o \in CircuitSend(circuits[h], conns) :
       Transmitted("circuit_send", h, o)

\* The upstream end-of-file callback of circuit h:
\* roundrobin_circuit_send_eof.
roundrobin_circuit_send_eof(h) ==
  /\ circuits[h].state = "open"
  /\ ~aborted[Process(h)]
  /\ ~circuits[h].sent_fin
  /\ \E o \in CircuitSendEof(circuits[h], conns) :
       Transmitted("circuit_send_eof", h, o)

\* The network carries the first block of the outbound buffer of client
\* connection c to the inbound buffer of its peer.
net_transfer(c) ==
  /\ conns[c].open
  /\ conns[Peer(c)].open
  /\ conns[c].outbound # <<>>
  /\ conns' = [conns EXCEPT
       ![c].outbound = Tail(@),
       ![Peer(c)].inbound = Append(@, Head(conns[c].outbound)),
       ![Peer(c)].unread = TRUE]
  /\ last' = Call("net_transfer", c, conns[c].circuit, 0, NoCircuit, <<>>, <<>>)
  /\ UNCHANGED <<apache, enomem, circuits, circuit_table, aborted, nwire>>

\* The end of roundrobin_conn_recv_eof with the drop made whatever sent_fin
\* is.
DropWhateverSentFin(r, c, h) ==
  IF r.rc = 0 /\ ~r.st.aborted["server"]
  THEN [r EXCEPT !.st = roundrobin_circuit_drop_downstream(@, h, c)]
  ELSE r

\* The end of roundrobin_conn_recv_eof on connection c, bound to a circuit:
\* "we should only drop the connection from the circuit if we're no longer
\* sending in the opposite direction".
DropIfSentFin(r, c, h) ==
  IF r.rc = 0 /\ ~r.st.aborted["server"] /\ r.st.circuits[h].sent_fin
  THEN [r EXCEPT !.st = roundrobin_circuit_drop_downstream(@, h, c)]
  ELSE r

\* The call record of roundrobin_conn_recv_eof: that of the
\* roundrobin_conn_recv it has made, under its own name.
RecvEofCall(r) == [r EXCEPT !.call = [@ EXCEPT !.op = "conn_recv_eof"]]

\* roundrobin_conn_recv_eof(c) for connection c: [rc, st, call].
ConnRecvEof(st, c, ub) ==
  IF st.conns[c].circuit = NULL
  THEN [rc |-> 0, st |-> st,
        call |-> Call("conn_recv_eof", c, NULL, 0, NoCircuit, <<>>, <<>>)]
  ELSE DropIfSentFin(
         IF WireLen(st.conns[c].inbound) > 0
         THEN RecvEofCall(ConnRecv(st, c, ub))
         ELSE [rc |-> 0, st |-> st,
               call |-> Call("conn_recv_eof", c, st.conns[c].circuit, 0,
                             st.circuits[st.conns[c].circuit], <<>>, <<>>)],
         c, st.conns[c].circuit)

\* The end-of-file callback of server connection c, once the peer has sent
\* end of file, all its bytes have arrived and the read callback has run on
\* them: roundrobin_conn_recv_eof, and the error handling of its caller when
\* it returns -1.
roundrobin_conn_recv_eof(c, ub) ==
  /\ ~aborted["server"]
  /\ conns[c].open
  /\ ~conns[c].unread
  /\ ~conns[c].got_eof
  /\ conns[Peer(c)].sent_eof
  /\ conns[Peer(c)].outbound = <<>>
  /\ ub = "intact" \/ ReadsFreed(c)
  /\ Received(Handle(ConnRecvEof(State(circuits,
                                       [conns EXCEPT ![c].got_eof = TRUE],
                                       circuit_table, aborted),
                                 c, ub),
                     c, ub))

\* ------------------------------------------------------------------------
\* Specification of two processes: a client streams to a server
\* ------------------------------------------------------------------------

NextE2E ==
  \/ \E n \in 1 .. NDown : client_connect(n)
  \/ \E n \in SendChunks :
       /\ circuits[ClientHandle].up_read + n <= MaxStream
       /\ upstream_data(ClientHandle, n)
  \/ /\ circuits[ClientHandle].up_read = 0
     /\ upstream_data(ClientHandle, BulkStream)
  \/ roundrobin_circuit_send(ClientHandle)
  \/ roundrobin_circuit_send_eof(ClientHandle)
  \/ \E c \in ClientConns : net_transfer(c)
  \/ \E c \in ServerConns : \E ub \in UBOutcomes : roundrobin_conn_recv(c, ub)
  \/ \E c \in ServerConns : \E ub \in UBOutcomes : roundrobin_conn_recv_eof(c, ub)

SpecE2E == Init /\ [][NextE2E]_vars

\* ------------------------------------------------------------------------
\* Specification of the receiving side with blocks of full size
\* ------------------------------------------------------------------------

\* Blocks the network may deliver in one run with large blocks.
MaxLargeBlocks == 5

\* A stream cut into a SYN block and a second block of RR_MAX_BLOCK bytes
\* each and a third block of two bytes, and a two-byte block at offset 0.
LargeHeaders ==
  { Header(0, 0, RR_MAX_BLOCK, RR_F_SYN),
    Header(0, RR_MAX_BLOCK, RR_MAX_BLOCK, 0),
    Header(0, 2 * RR_MAX_BLOCK, 2, 0),
    Header(0, 0, 2, 0) }

NextLarge ==
  \E c \in RecvConns :
    \/ \E hdr \in LargeHeaders :
         nwire + 1 < MaxLargeBlocks /\ net_arrive(c, hdr)
    \/ nwire + 1 = MaxLargeBlocks /\ net_arrive(c, LastHeader)
    \/ \E ub \in UBOutcomes : roundrobin_conn_recv(c, ub)

SpecLarge == Init /\ [][NextLarge]_vars

\* ------------------------------------------------------------------------
\* Specification of the life of a circuit: connections come and go
\* ------------------------------------------------------------------------

\* Blocks the network may deliver in one life.
MaxLifeBlocks == 4

\* A whole stream in one block, and the block that ends every run.
LifeHeaders ==
  { Header(0, 0, RecvLength, BitOr(RR_F_SYN, RR_F_FIN)), LastHeader }

\* The peer of server connection c shuts its end of the connection down
\* (conn_send_eof at the other end); nothing arrives on c after that.
peer_send_eof(c) ==
  /\ ~aborted["server"]
  /\ conns[c].open
  /\ ~conns[Peer(c)].sent_eof
  /\ conns' = [conns EXCEPT ![Peer(c)].sent_eof = TRUE]
  /\ last' = Call("peer_send_eof", c, conns[c].circuit, 0, NoCircuit, <<>>, <<>>)
  /\ UNCHANGED <<apache, enomem, circuits, circuit_table, aborted, nwire>>

\* conn_close of connection c with what goes before it in connections.c: a
\* connection that belongs to a circuit is dropped from it first.
ConnClosed(st, c) ==
  IF st.conns[c].circuit = NULL
  THEN [st EXCEPT !.conns = conn_close(@, c)]
  ELSE [roundrobin_circuit_drop_downstream(st, st.conns[c].circuit, c)
          EXCEPT !.conns = conn_close(@, c)]

\* Connection c is closed: the transport has failed or the process gives
\* the connection up.
conn_closed(c) ==
  /\ ~aborted["server"]
  /\ conns[c].open
  /\ conns[c].circuit # NULL => circuits[conns[c].circuit].state = "open"
  /\ Received([rc |-> 0,
               st |-> ConnClosed(State(circuits, conns, circuit_table, aborted),
                                 c),
               call |-> Call("conn_close", c, conns[c].circuit, 0,
                             IF conns[c].circuit = NULL THEN NoCircuit
                             ELSE circuits[conns[c].circuit],
                             <<>>, <<>>)])

\* The axe timer of circuit h fires: the circuit is closed.
axe_timer_fires(h) ==
  /\ ~aborted[Process(h)]
  /\ circuits[h].state = "open"
  /\ circuits[h].axe_timer
  /\ Received([rc |-> 0,
               st |-> roundrobin_circuit_free(
                        State(circuits, conns, circuit_table, aborted), h),
               call |-> Call("axe_timer", NULL, h, 0, circuits[h],
                             <<>>, <<>>)])

NextLife ==
  \/ \E c \in ServerConns : \E hdr \in LifeHeaders :
       /\ nwire < MaxLifeBlocks
       /\ ~conns[Peer(c)].sent_eof
       /\ net_arrive(c, hdr)
  \/ \E c \in ServerConns : \E ub \in UBOutcomes : roundrobin_conn_recv(c, ub)
  \/ \E c \in ServerConns : peer_send_eof(c)
  \/ \E c \in ServerConns : \E ub \in UBOutcomes : roundrobin_conn_recv_eof(c, ub)
  \/ \E c \in ServerConns : conn_closed(c)
  \/ \E h \in ServerHandles : axe_timer_fires(h)
  \/ \E h \in ServerHandles :
       circuits[h].up_read = 0 /\ upstream_data(h, RecvLength)
  \/ \E h \in ServerHandles : roundrobin_circuit_send(h)
  \/ \E h \in ServerHandles : roundrobin_circuit_send_eof(h)

SpecLife == Init /\ [][NextLife]_vars

\* ------------------------------------------------------------------------
\* Specification of the header codec
\* ------------------------------------------------------------------------

\* Headers written in one run of the codec.
MaxCodec == 2

\* Field values with every byte of the field zero, non-zero and full, as far
\* as the widths of the model go (circuit ids below 2^31, offsets below
\* OffsetMod).
CodecIds == {0, 255, 256, 16777474, 2147483647}

CodecOffsets == {0, 255, 256, 66049, OffsetMod - 1}

CodecLengths == {0, 1, 255, 256, RR_MAX_BLOCK, U16Mod - 1}

CodecFlags == {0, RR_F_SYN, RR_F_FIN, 7, 256, U16Mod - 1}

CodecHeaders ==
  { Header(i, o, l, f) :
      i \in CodecIds, o \in CodecOffsets, l \in CodecLengths, f \in CodecFlags }

\* A block record of a codec call: only the header counts.
CodecBlock(hdr) == [hdr |-> hdr, rc |-> 0, queue |-> <<>>, after |-> <<>>]

\* The 16 bytes rr_write_header makes of hdr are put into the empty buffer
\* of connection c.
header_written(c, hdr) ==
  /\ nwire < MaxCodec
  /\ conns[c].inbound = <<>>
  /\ conns' = [conns EXCEPT ![c].inbound = <<WireBlock(hdr, <<>>)>>]
  /\ nwire' = nwire + 1
  /\ last' = Call("rr_write_header", c, NULL, 0, NoCircuit,
                  <<CodecBlock(hdr)>>, <<>>)
  /\ UNCHANGED <<apache, enomem, circuits, circuit_table, aborted>>

\* rr_peek_header on the buffer of connection c: -1 from a buffer shorter
\* than a header; otherwise the header is copied out and decoded, and the
\* buffer is left as it is.  The call record lists the header written, if
\* one was, and then the header read.
header_peeked(c) ==
  /\ last.op # "rr_peek_header"
  /\ last' = IF WireLen(conns[c].inbound) < RR_WIRE_HDR_LEN
             THEN Call("rr_peek_header", c, NULL, -1, NoCircuit, <<>>, <<>>)
             ELSE Call("rr_peek_header", c, NULL, 0, NoCircuit,
                       Append(last.blocks,
                              CodecBlock(rr_peek_header(
                                           Head(conns[c].inbound).header))),
                       <<>>)
  /\ UNCHANGED <<apache, enomem, circuits, conns, circuit_table, aborted, nwire>>

\* The buffer of connection c is emptied.
buffer_drained(c) ==
  /\ conns[c].inbound # <<>>
  /\ conns' = [conns EXCEPT ![c].inbound = <<>>]
  /\ last' = Call("evbuffer_drain", c, NULL, 0, NoCircuit, <<>>, <<>>)
  /\ UNCHANGED <<apache, enomem, circuits, circuit_table, aborted, nwire>>

NextCodec ==
  \E c \in RecvConns :
    \/ \E hdr \in CodecHeaders : header_written(c, hdr)
    \/ header_peeked(c)
    \/ buffer_drained(c)

SpecCodec == Init /\ [][NextCodec]_vars

\* ------------------------------------------------------------------------
\* Properties of the receive path
\* ------------------------------------------------------------------------

\* Length of the payload a block contributes to the stream: chaff carries
\* none.
PayloadLength(hdr) == IF HasFlag(hdr.flags, RR_F_CHAFF) THEN 0 ELSE hdr.length

\* The byte ranges [o1, o1 + l1) and [o2, o2 + l2) have a byte in common.
Overlap(o1, l1, o2, l2) ==
  /\ l1 > 0
  /\ l2 > 0
  /\ mod32_lt(o1, U32(o2 + l2))
  /\ mod32_lt(o2, U32(o1 + l1))

\* Some element of queue q carries flag bit.
Queued(q, bit) == \E j \in DOMAIN q : HasFlag(q[j].flags, bit)

\* The blocks handled by the call of roundrobin_conn_recv made last.
Handled ==
  IF last.op \in {"conn_recv", "conn_recv_eof"}
  THEN {last.blocks[i] : i \in DOMAIN last.blocks}
  ELSE {}

\* The elements the call made last wrote upstream.
Flushed == {last.delivered[i] : i \in DOMAIN last.delivered}

\* C3: on every circuit received_syn is true no later than the first
\* delivery of payload upstream: rr_push_to_upstream never delivers an
\* element while received_syn is false unless that element carries SYN, and
\* a circuit that has delivered anything has received_syn set.
C3_SynBeforeDelivery ==
  /\ \A d \in Flushed : d.received_syn \/ HasFlag(d.elt.flags, RR_F_SYN)
  /\ \A h \in ServerHandles :
       circuits[h].state = "open" /\ circuits[h].up_output # <<>>
         => circuits[h].received_syn

\* The case of C3: a call has left the element at recv_offset on the queue
\* because it carries no SYN and no SYN has been received, and an element
\* without SYN has been delivered on a circuit that had received SYN.
C3_Withheld ==
  /\ last.op = "conn_recv"
  /\ last.circuit # NULL
  /\ last.rc = 0
  /\ LET ckt == circuits[last.circuit]
     IN /\ ckt.state = "open"
        /\ ~ckt.received_syn
        /\ ckt.reassembly_queue # <<>>
        /\ ckt.reassembly_queue[1].offset = ckt.recv_offset
        /\ ckt.reassembly_queue[1].length > 0
        /\ ckt.up_output = <<>>

\* C4: once received_fin is true on a circuit, no later block receipt
\* writes any further payload byte to the upstream output buffer of that
\* circuit.
C4_NothingAfterFin ==
  \A d \in Flushed : d.received_fin => BufLen(d.elt.data) = 0

\* C6: a second SYN block or a second FIN block received on a circuit is
\* rejected (rr_reassemble_block returns -1), whether the first SYN or FIN
\* is still on the reassembly queue or has already been delivered upstream.
C6_DuplicateSynFinRejected ==
  \A b \in Handled :
    /\ ( /\ HasFlag(b.hdr.flags, RR_F_SYN)
         /\ last.was.received_syn \/ Queued(b.queue, RR_F_SYN) )
       => b.rc = -1
    /\ ( /\ HasFlag(b.hdr.flags, RR_F_FIN)
         /\ last.was.received_fin \/ Queued(b.queue, RR_F_FIN) )
       => b.rc = -1

\* C7: rr_reassemble_block rejects (returns -1, queue unchanged) every block
\* whose byte range overlaps the range of an element on the reassembly
\* queue, also when the block abuts one element and overlaps its neighbour.
C7_OverlapRejected ==
  \A b \in Handled :
    (\E j \in DOMAIN b.queue :
       Overlap(b.hdr.offset, PayloadLength(b.hdr),
               b.queue[j].offset, b.queue[j].length))
      => b.rc = -1 /\ b.after = b.queue

\* C8: after a SYN block with offset 0 and length 10 has been received, a
\* plain block with offset 5 and length 10 is a protocol error; in general
\* a block that overlaps bytes already received is rejected, whether they
\* are still queued behind the SYN or have been delivered upstream (the
\* block starts before recv_offset).
C8_ReceivedBytesRejected ==
  \A b \in Handled :
    ( /\ PayloadLength(b.hdr) > 0
      /\ \/ /\ last.was.received_syn
            /\ mod32_lt(b.hdr.offset, last.was.recv_offset)
         \/ /\ b.queue # <<>>
            /\ HasFlag(b.queue[1].flags, RR_F_SYN)
            /\ Overlap(b.hdr.offset, PayloadLength(b.hdr),
                       b.queue[1].offset, b.queue[1].length) )
      => b.rc = -1 /\ last.rc = -1

\* C9: a received block whose header has a flag bit other than SYN, FIN or
\* CHAFF set is rejected as a protocol error by the receive path and is
\* never placed on the reassembly queue.
C9_ReservedFlagsRejected ==
  \A b \in Handled :
    b.hdr.flags >= 2 * RR_F_CHAFF
      => b.rc = -1 /\ last.rc = -1 /\ b.after = b.queue

\* C10: a received block header with length 32767 is accepted (it is placed
\* when the queue is empty), and every header with a length above 32767 is
\* rejected as a protocol error by the receive path.
C10_LengthLimit ==
  \A b \in Handled :
    /\ ( /\ b.hdr.length = RR_MAX_BLOCK
         /\ b.hdr.flags = 0
         /\ b.hdr.ckt_id = last.was.circuit_id
         /\ b.queue = <<>> )
       => b.rc = 0
    /\ b.hdr.length > RR_MAX_BLOCK => b.rc = -1 /\ last.rc = -1

\* ------------------------------------------------------------------------
\* Properties of the delivered stream
\* ------------------------------------------------------------------------

\* Every run of buf holds the bytes that belong at its place when buf
\* starts at stream position pos.
RECURSIVE InPlace(_, _)
InPlace(buf, pos) ==
  \/ buf = <<>>
  \/ /\ Head(buf).len = 0 \/ U32(Head(buf).base + Head(buf).from) = U32(pos)
     /\ InPlace(Tail(buf), pos + Head(buf).len)

\* No byte of a source occurs in two runs of buf.
NoRepeat(buf) ==
  \A i, j \in DOMAIN buf :
    (i < j /\ buf[i].src = buf[j].src)
      => \/ buf[i].from + buf[i].len <= buf[j].from
         \/ buf[j].from + buf[j].len <= buf[i].from

\* C1: for every circuit, after any sequence of accepted block receipts the
\* bytes written to the upstream output buffer are the block payloads in
\* strictly increasing offset order: every delivered byte comes from one
\* received block at its offset, and no byte is delivered twice or out of
\* order.
C1_DeliveredInOrder ==
  \A h \in ServerHandles :
    circuits[h].state = "open"
      => /\ InPlace(circuits[h].up_output, 0)
         /\ NoRepeat(circuits[h].up_output)

\* The stream S the client's upstream has written so far.
Stream ==
  IF circuits[ClientHandle].up_read = 0
  THEN <<>>
  ELSE <<Run(0, 0, 0, circuits[ClientHandle].up_read)>>

\* The bytes the server has written upstream for the client's circuit.
ServerOutput ==
  LET found == {e \in circuit_table :
                  e.circuit_id = circuits[ClientHandle].circuit_id}
  IN IF found = {}
     THEN <<>>
     ELSE BufBytes(circuits[(CHOOSE e \in found : TRUE).circuit].up_output)

\* circuit_send_eof has succeeded, every emitted block has arrived at the
\* server, and the server has run its callbacks on all of it.
AllArrived ==
  /\ circuits[ClientHandle].state = "open"
  /\ circuits[ClientHandle].sent_fin
  /\ ~aborted["client"]
  /\ ~aborted["server"]
  /\ \A c \in ClientConns :
       conns[c].circuit = ClientHandle
         => /\ conns[c].outbound = <<>>
            /\ conns[Peer(c)].open
            /\ conns[Peer(c)].got_eof
            /\ ~conns[Peer(c)].unread

\* C2: when a sender pushes a stream S through circuit_send followed by
\* circuit_send_eof over N >= 1 downstreams, then for every interleaving of
\* block arrival across downstreams, once every emitted block has arrived at
\* the receiver the receiver's upstream output equals S exactly.
C2_EndToEnd == AllArrived => ServerOutput = Stream

\* C5: over any sequence of circuit_send and circuit_send_eof calls on a
\* circuit with at least one downstream attached, exactly one emitted block
\* carries SYN and it is the first block emitted, and once circuit_send_eof
\* has succeeded exactly one emitted block carries FIN and it is the last
\* block emitted.
C5_OneSynOneFin ==
  LET ckt == circuits[ClientHandle]
      e == ckt.emitted
  IN (ckt.state = "open" /\ ckt.downstreams # <<>> /\ ~aborted["client"])
       => /\ \A i \in DOMAIN e : HasFlag(e[i].flags, RR_F_SYN) <=> i = 1
          /\ ckt.sent_fin
               => /\ e # <<>>
                  /\ \A i \in DOMAIN e :
                       HasFlag(e[i].flags, RR_F_FIN) <=> i = Len(e)

\* ------------------------------------------------------------------------
\* Properties of the header codec
\* ------------------------------------------------------------------------

\* C11: for every header h, rr_peek_header on a buffer that starts with the
\* 16 bytes of rr_write_header(h) succeeds and returns exactly h, and it
\* leaves the contents and the length of the buffer unchanged.
C11_HeaderRoundTrip ==
  (last.op = "rr_peek_header" /\ conns[last.conn].inbound # <<>>)
    => /\ last.rc = 0
       /\ Len(last.blocks) = 2
       /\ last.blocks[2].hdr = last.blocks[1].hdr
       /\ conns[last.conn].inbound = <<WireBlock(last.blocks[1].hdr, <<>>)>>
       /\ WireLen(conns[last.conn].inbound) = RR_WIRE_HDR_LEN

\* A header whose fields have different high and low bytes has been written
\* and read back.
C11_PeekedMixedBytes ==
  /\ last.op = "rr_peek_header"
  /\ last.rc = 0
  /\ last.blocks[1].hdr = Header(16777474, 66049, 256, 7)

\* ------------------------------------------------------------------------
\* Properties of the transmit path
\* ------------------------------------------------------------------------

\* C12: roundrobin_circuit_send_eof on a circuit with at least one
\* downstream and no pending upstream data emits exactly one block, of
\* length next_block_size; its flags are SYN|FIN|CHAFF if the circuit has
\* never emitted a block (sent_syn false) and CHAFF|FIN if a SYN was already
\* sent.
C12_EofBlockFlags ==
  LET ckt == circuits[ClientHandle]
      was == last.was
      n == Len(ckt.emitted)
  IN (/\ last.op = "circuit_send_eof"
      /\ last.circuit = ClientHandle
      /\ was.downstreams # <<>>
      /\ was.up_input = <<>>
      /\ was.xmit_pending = <<>>)
       => /\ ~aborted["client"]
          /\ n = Len(was.emitted) + 1
          /\ ckt.emitted[n].length = was.next_block_size
          /\ ckt.emitted[n].flags =
               IF was.sent_syn
               THEN BitOr(RR_F_CHAFF, RR_F_FIN)
               ELSE BitOr(RR_F_SYN, BitOr(RR_F_FIN, RR_F_CHAFF))

\* C13: when the sender calls circuit_send_eof without ever having called
\* circuit_send, then once the block it emitted has reached the receiver and
\* the receiver has run its callbacks, the receiver's circuit has
\* received_fin set and has signalled end of file upstream
\* (circuit_recv_eof) without delivering any payload byte.
C13_EmptyStreamEof ==
  (/\ AllArrived
   /\ circuits[ClientHandle].downstreams # <<>>
   /\ circuits[ClientHandle].up_read = 0
   /\ Len(circuits[ClientHandle].emitted) = 1)
    => \E h \in ServerHandles :
         /\ circuits[h].state = "open"
         /\ circuits[h].received_fin
         /\ circuits[h].recv_eof = 1
         /\ circuits[h].up_output = <<>>

\* The sum of the lengths of the first n headers of e.
RECURSIVE SumLengths(_, _)
SumLengths(e, n) == IF n = 0 THEN 0 ELSE e[n].length + SumLengths(e, n - 1)

\* The first call of roundrobin_circuit_send on a circuit with two
\* downstreams found BulkStream bytes of upstream data, and the block size
\* is MidBlock.
FourBlocksSent ==
  /\ last.op = "circuit_send"
  /\ last.circuit = ClientHandle
  /\ last.was.emitted = <<>>
  /\ Len(last.was.downstreams) = 2
  /\ last.was.xmit_pending = <<>>
  /\ BufLen(last.was.up_input) = BulkStream
  /\ circuits[ClientHandle].next_block_size = MidBlock

\* C19: with a fixed set of N downstreams, the k-th block emitted (counting
\* from 0) goes to downstreams[k mod N], its offset equals the sum of the
\* lengths of the blocks emitted before it (mod 2^32), and only the first
\* block carries SYN; so 256 bytes with block size 64 over two downstreams A
\* and B give four blocks with offsets 0, 64, 128, 192 and flags SYN, 0, 0, 0,
\* of which A receives offsets 0 and 128 and B receives 64 and 192.
C19_RoundRobinOrder ==
  LET ckt == circuits[ClientHandle]
      e == ckt.emitted
      N == Len(ckt.downstreams)
  IN (ckt.state = "open" /\ N > 0)
       => /\ \A k \in DOMAIN e :
               /\ ckt.targets[k] = ckt.downstreams[((k - 1) % N) + 1]
               /\ e[k].offset = U32(SumLengths(e, k - 1))
               /\ HasFlag(e[k].flags, RR_F_SYN) => k = 1
          /\ FourBlocksSent
               => /\ ~aborted["client"]
                  /\ e = << Header(ckt.circuit_id, 0, MidBlock, RR_F_SYN),
                            Header(ckt.circuit_id, MidBlock, MidBlock, 0),
                            Header(ckt.circuit_id, 2 * MidBlock, MidBlock, 0),
                            Header(ckt.circuit_id, 3 * MidBlock, MidBlock, 0) >>
                  /\ ckt.targets = << ckt.downstreams[1], ckt.downstreams[2],
                                      ckt.downstreams[1], ckt.downstreams[2] >>

\* C20: in every state in which the dispatcher may emit a block, from the
\* creation of the circuit on, next_block_size is in [32, 32767]; so every
\* emitted block other than a final FIN block shrunk to the residual has a
\* payload length in [32, 32767].
C20_BlockSizeRange ==
  LET ckt == circuits[ClientHandle]
  IN (ckt.state = "open" /\ ~ckt.sent_fin /\ ~aborted["client"])
       => /\ ckt.next_block_size >= RR_MIN_BLOCK
          /\ ckt.next_block_size <= RR_MAX_BLOCK
          /\ \A k \in DOMAIN ckt.emitted :
               \/ HasFlag(ckt.emitted[k].flags, RR_F_FIN)
               \/ /\ ckt.emitted[k].length >= RR_MIN_BLOCK
                  /\ ckt.emitted[k].length <= RR_MAX_BLOCK

\* ------------------------------------------------------------------------
\* Properties of the life of a circuit
\* ------------------------------------------------------------------------

\* The connections in the downstreams list of circuit record ckt.
Listed(ckt) == {ckt.downstreams[i] : i \in DOMAIN ckt.downstreams}

\* The connections the blocks went to that the transmit call made last has
\* emitted on circuit h.
NewTargets(h) ==
  IF last.op \in {"circuit_send", "circuit_send_eof"} /\ last.circuit = h
  THEN {circuits[h].targets[i] :
          i \in (Len(last.was.targets) + 1) .. Len(circuits[h].targets)}
  ELSE {}

\* C14: after roundrobin_circuit_drop_downstream has removed one downstream
\* from a circuit that still has others, next_down is a valid index (less
\* than the number of attached downstreams) and every block emitted
\* afterwards goes to a downstream that remains.
C14_NextDownAfterDrop ==
  \A h \in Handles :
    (/\ circuits[h].state = "open"
     /\ circuits[h].downstreams # <<>>
     /\ Listed(circuits[h]) # circuits[h].attached)
      => /\ circuits[h].next_down < Len(circuits[h].downstreams)
         /\ ~aborted[Process(h)]
         /\ NewTargets(h) \subseteq Listed(circuits[h])

\* The call made last has dropped the last downstream of circuit h, which
\* was open: a connection was closed, or roundrobin_conn_recv_eof dropped it.
DroppedLast(h) ==
  /\ last.op \in {"conn_close", "conn_recv_eof"}
  /\ last.circuit = h
  /\ last.rc = 0
  /\ last.was.state = "open"
  /\ Listed(last.was) = {last.conn}
  /\ conns[last.conn].circuit = NULL
  /\ circuits[h].downstreams = <<>>

\* C15: when the drop of a downstream leaves a circuit with none and the
\* circuit has not both sent_fin and received_fin, the axe timer is armed and
\* the circuit stays; a downstream attached before the timer fires disarms
\* it, so that the timer is armed on no circuit that has a downstream and the
\* circuit survives; the timer fires only while no downstream has been
\* attached since, and the circuit is destroyed when it fires.
C15_AxeTimer ==
  \A h \in Handles :
    /\ (DroppedLast(h) /\ ~(circuits[h].sent_fin /\ circuits[h].received_fin))
         => circuits[h].state = "open" /\ circuits[h].axe_timer
    /\ (circuits[h].state = "open" /\ circuits[h].downstreams # <<>>)
         => ~circuits[h].axe_timer
    /\ (last.op = "axe_timer" /\ last.circuit = h)
         => /\ last.was.axe_timer
            /\ last.was.downstreams = <<>>
            /\ circuits[h].state = "freed"

\* A circuit whose axe timer was armed has a downstream again, is open and
\* its timer is disarmed.
C15_Reattached ==
  \E h \in Handles :
    /\ circuits[h].state = "open"
    /\ circuits[h].armed
    /\ circuits[h].downstreams # <<>>
    /\ ~circuits[h].axe_timer

\* C16: when the drop of a downstream leaves a circuit with none and the
\* circuit has both sent_fin and received_fin, the circuit is destroyed at
\* once (circuit_close) and no axe timer is armed.
C16_ClosedWhenBothFin ==
  \A h \in Handles :
    (DroppedLast(h) /\ circuits[h].sent_fin /\ circuits[h].received_fin)
      => circuits[h].state = "freed" /\ ~circuits[h].axe_timer

\* roundrobin_conn_recv_eof has dropped the last downstream of a circuit
\* with sent_fin and received_fin.
C16_LastDroppedAfterBothFin ==
  \E h \in Handles :
    /\ DroppedLast(h)
    /\ last.op = "conn_recv_eof"
    /\ circuits[h].sent_fin
    /\ circuits[h].received_fin

\* roundrobin_conn_recv_eof has returned 0 for a connection that was in the
\* downstreams list of circuit h, which was open.
PeerEofHandled(h) ==
  /\ last.op = "conn_recv_eof"
  /\ last.circuit = h
  /\ last.rc = 0
  /\ last.was.state = "open"
  /\ last.conn \in Listed(last.was)
  /\ ~aborted["server"]

\* C17: when a peer EOF arrives on a downstream that is attached to a
\* circuit (roundrobin_conn_recv_eof), that connection is dropped from the
\* circuit's downstreams list, in every circuit state (whether or not
\* sent_fin is set); the circuit itself is not terminated unless this was
\* its last downstream.
C17_PeerEofDrops ==
  \A h \in Handles :
    PeerEofHandled(h)
      => /\ conns[last.conn].circuit = NULL
         /\ last.conn \notin Listed(circuits[h])
         /\ circuits[h].state = "freed" => Listed(last.was) = {last.conn}

\* C17 as the code has it: the connection is dropped exactly if the circuit
\* has sent_fin set, and stays attached otherwise; the circuit is not
\* terminated unless this was its last downstream.
C17_PeerEofDropsIfSentFin ==
  \A h \in Handles :
    PeerEofHandled(h)
      => /\ circuits[h].sent_fin
              => conns[last.conn].circuit = NULL
         /\ ~circuits[h].sent_fin
              => /\ conns[last.conn].circuit = h
                 /\ circuits[h].downstreams = last.was.downstreams
         /\ circuits[h].state = "freed" => Listed(last.was) = {last.conn}

\* A peer EOF has been handled on a downstream of a circuit that has not
\* sent its FIN, and the connection is still attached.
C17_StaysAttached ==
  \E h \in Handles :
    /\ PeerEofHandled(h)
    /\ ~circuits[h].sent_fin
    /\ last.conn \in Listed(circuits[h])

\* The call made last has destroyed circuit h, which was open.
Destroyed(h) ==
  /\ last.circuit = h
  /\ last.was.state = "open"
  /\ circuits[h].state = "freed"

\* The axe timer of circuit h has fired: it was armed when the last
\* downstream was dropped, and none has been attached since.
AxeFired(h) ==
  /\ last.op = "axe_timer"
  /\ last.circuit = h
  /\ last.was.armed
  /\ last.was.axe_timer
  /\ last.was.downstreams = <<>>

EnteredAs(h) == {e.circuit_id : e \in {x \in circuit_table : x.circuit = h}}

\* Block record b of a call on a circuit whose circuit_id field was cid has
\* failed the circuit-id check of roundrobin_conn_recv.
FailedIdCheck(b, cid) == b.rc = -1 /\ b.hdr.ckt_id # cid

\* C21: when a loose connection receives its first block and the block's
\* circuit id X is not in the circuit table, rr_find_or_make_circuit creates
\* a circuit, enters it under X and attaches the connection, and that block
\* and every later block with id X on the connection is accepted for
\* reassembly on the circuit and does not fail the circuit-id check.
C21_FirstBlockAccepted ==
  (last.op = "conn_recv" /\ last.circuit # NULL /\ last.was.state = "open")
    => /\ EnteredAs(last.circuit) # {}
       /\ last.conn \in last.was.attached
       /\ \A i \in DOMAIN last.blocks :
            last.blocks[i].hdr.ckt_id \in EnteredAs(last.circuit)
              => ~FailedIdCheck(last.blocks[i], last.was.circuit_id)


\* ------------------------------------------------------------------------
\* The steg adapter of a downstream
\* ------------------------------------------------------------------------

\* http_apache_steg_t::transmit_room(pref, lo, hi): the sizes the adapter may
\* report.  Once it has transmitted on its connection it reports 0; before
\* that, the preferred size plus a random amount, clamped between lo and hi.
transmit_room(have_transmitted, lo, hi) ==
  IF have_transmitted THEN {0} ELSE lo .. hi

\* have_transmitted of the adapter of connection d as the call on circuit
\* record was found it: set by the adapter's transmit, that is once a block
\* has been written to the connection.
HaveTransmitted(was, d) == \E i \in DOMAIN was.targets : was.targets[i] = d

\* The bytes (headers and payloads) of the blocks that the circuit record now
\* has emitted to connection d since it was as in was.
RECURSIVE WrittenTo(_, _, _, _)
WrittenTo(now, d, from, to) ==
  IF from > to THEN 0
  ELSE (IF now.targets[to] = d
        THEN RR_WIRE_HDR_LEN + now.emitted[to].length ELSE 0)
       + WrittenTo(now, d, from, to - 1)

WrapBack == 20

WrapStart == OffsetMod - WrapBack

\* Blocks the network may deliver in one run across the wrap.
MaxWrapBlocks == 5

\* Data blocks of RecvLength bytes at the four offsets from WrapStart on: two
\* before the wrap and two after it, each with or without FIN.
WrapOffsets == {U32(WrapStart + k * RecvLength) : k \in 0 .. 3}

WrapHeaders ==
  {Header(0, o, RecvLength, f) : o \in WrapOffsets, f \in {0, RR_F_FIN}}

\* The server's circuit 0 with one downstream, after it has received and
\* passed upstream the first WrapStart bytes of a stream.
InitWrap ==
  /\ circuits = [h \in Handles |->
       IF h = 1
       THEN [roundrobin_circuit_create EXCEPT
               !.downstreams = <<NDown + 1>>,
               !.attached = {NDown + 1},
               !.received_syn = TRUE,
               !.recv_offset = WrapStart]
       ELSE NoCircuit]
  /\ conns = [c \in ConnIds |->
       IF c = NDown + 1
       THEN [roundrobin_conn_create EXCEPT !.circuit = 1]
       ELSE roundrobin_conn_create]
  /\ circuit_table = {[circuit_id |-> 0, circuit |-> 1]}
  /\ aborted = [p \in {"client", "server"} |-> FALSE]
  /\ nwire = 0
  /\ enomem = {}
  /\ apache = [side \in Sides |-> NoConfig]
  /\ last = NoCall

NextWrap ==
  \E c \in RecvConns :
    \/ \E hdr \in WrapHeaders : nwire + 1 < MaxWrapBlocks /\ net_arrive(c, hdr)
    \/ nwire + 1 = MaxWrapBlocks /\ net_arrive(c, LastHeader)
    \/ \E ub \in UBOutcomes : roundrobin_conn_recv(c, ub)

SpecWrap == InitWrap /\ [][NextWrap]_vars

\* Header hdr and reassembly queue q with every offset moved on by k.
ShiftHeader(hdr, k) == [hdr EXCEPT !.offset = U32(@ + k)]

ShiftQueue(q, k) == [i \in DOMAIN q |-> [q[i] EXCEPT !.offset = U32(@ + k)]]

\* Offsets, lengths and flags of the elements of q, in order.
Shape(q) ==
  [i \in DOMAIN q |->
     [offset |-> q[i].offset, length |-> q[i].length, flags |-> q[i].flags]]

\* The same stream half the offset space further on, where nothing wraps.
NoWrap == OffsetHalf

\* Block record b is what rr_reassemble_block does with the same block on
\* the same queue away from the wrap.
ReassembledAsNoWrap(b) ==
  LET r == rr_reassemble_block(ShiftQueue(b.queue, NoWrap),
                               <<Run(0, b.hdr.offset, 0, b.hdr.length)>>,
                               ShiftHeader(b.hdr, NoWrap))
  IN /\ r.rc = b.rc
     /\ Shape(r.queue) = Shape(ShiftQueue(b.after, NoWrap))

\* The element written upstream and the new recv_offset are what
\* rr_push_to_upstream gives for the same circuit away from the wrap.
PushedAsNoWrap(was, q, now, delivered) ==
  LET p == rr_push_to_upstream(
             [was EXCEPT !.reassembly_queue = ShiftQueue(q, NoWrap),
                         !.recv_offset = U32(@ + NoWrap)])
  IN /\ p.ckt.recv_offset = U32(now.recv_offset + NoWrap)
     /\ Len(p.delivered) = Len(delivered)
     /\ \A i \in DOMAIN delivered :
          /\ p.delivered[i].elt.data = delivered[i].elt.data
          /\ p.delivered[i].elt.offset = U32(delivered[i].elt.offset + NoWrap)
          /\ delivered[i].elt.offset = was.recv_offset

\* C23: while the offsets of a stream cross the top of the offset space,
\* every block is accepted or refused, queued and merged exactly as the same
\* block is away from the wrap, and the bytes are written upstream in the
\* same order: each element at recv_offset, which then moves on by its
\* length modulo the size of the space.
C23_WrapAsNoWrap ==
  (last.op = "conn_recv" /\ last.circuit # NULL)
    => /\ \A i \in DOMAIN last.blocks : ReassembledAsNoWrap(last.blocks[i])
       /\ last.rc = 0 =>
            PushedAsNoWrap(last.was,
                           IF last.blocks = <<>> THEN last.was.reassembly_queue
                           ELSE last.blocks[Len(last.blocks)].after,
                           circuits[last.circuit], last.delivered)

\* A block that starts before the wrap has been put in front of an element
\* that lies after it, and an element that ends after the wrap has been
\* written upstream.
C23_CrossedWrap ==
  /\ last.op = "conn_recv"
  /\ last.rc = 0
  /\ \E i \in DOMAIN last.blocks :
       /\ last.blocks[i].rc = 0
       /\ last.blocks[i].hdr.offset >= OffsetHalf
       /\ last.blocks[i].queue # <<>>
       /\ last.blocks[i].queue[1].offset < OffsetHalf
  /\ last.delivered # <<>>
  /\ last.was.recv_offset >= OffsetHalf
  /\ circuits[last.circuit].recv_offset < OffsetHalf
  /\ circuits[last.circuit].recv_offset > 0


\* ------------------------------------------------------------------------
\* SOCKS5 method negotiation
\* ------------------------------------------------------------------------

SOCKS5_VERSION == 5

SOCKS5_METHOD_NOAUTH == 0

SOCKS5_METHOD_FAIL == 255

\* socks5_do_negotiation: the two bytes of the reply are added to dest.
socks5_do_negotiation(source, dest, found_noauth) ==
  [rc |-> IF found_noauth THEN 1 ELSE -1,
   source |-> source,
   dest |-> dest \o <<SOCKS5_VERSION,
                       IF found_noauth THEN SOCKS5_METHOD_NOAUTH
                       ELSE SOCKS5_METHOD_FAIL>>]

\* socks5_handle_negotiation that looks at the first method offered only.
socks5_handle_negotiation_first_method(source, dest) ==
  LET nmethods == source[1]
  IN IF Len(source) < nmethods + 1
     THEN [rc |-> 0, source |-> source, dest |-> dest]
     ELSE socks5_do_negotiation(
            SubSeq(source, nmethods + 2, Len(source)), dest,
            nmethods > 0 /\ source[2] = SOCKS5_METHOD_NOAUTH)

\* socks5_handle_negotiation(source, dest, state) on a source that holds at
\* least the nmethods byte: [rc, source, dest].  With fewer than nmethods
\* method bytes in source it returns 0 and takes nothing; otherwise the
\* nmethods byte and the methods are removed and searched for NOAUTH.
socks5_handle_negotiation(source, dest) ==
  LET nmethods == source[1]
  IN IF Len(source) < nmethods + 1
     THEN [rc |-> 0, source |-> source, dest |-> dest]
     ELSE socks5_do_negotiation(
            SubSeq(source, nmethods + 2, Len(source)), dest,
            \E k \in 2 .. nmethods + 1 : source[k] = SOCKS5_METHOD_NOAUTH)

\* Method lists of up to MaxMethods announced methods, with up to one byte
\* more or fewer than announced, of three method codes; and the five
\* requests of test_socks_send_negotiation.
MaxMethods == 3

SocksMethods == {SOCKS5_METHOD_NOAUTH, 2, 66}

Repeated(byte, n) == [k \in 1 .. n |-> byte]

SocksTestRequests ==
  { <<1, 0>>,
    <<9>> \o Repeated(66, 8) \o <<0>>,
    <<99>> \o Repeated(66, 99),
    <<4, 0, 0, 0>>,
    <<3, 0, 0, 0, 0>> }

SocksRequests ==
  { <<n>> \o m :
      n \in 0 .. MaxMethods,
      m \in UNION { [1 .. k -> SocksMethods] : k \in 0 .. MaxMethods + 1 } }
  \cup SocksTestRequests

\* Requests one run may see.
MaxSocks == 2

\* The client's request req arrives in the empty buffer of connection c.
socks_request_arrives(c, req) ==
  /\ nwire < MaxSocks
  /\ conns[c].inbound = <<>>
  /\ conns[c].outbound = <<>>
  /\ conns' = [conns EXCEPT ![c].inbound = req]
  /\ nwire' = nwire + 1
  /\ last' = Call("socks_request", c, NULL, 0, NoCircuit, <<>>, <<>>)
  /\ UNCHANGED <<apache, enomem, circuits, circuit_table, aborted>>

\* socks5_handle_negotiation with the buffers of connection c as source and
\* dest.  The call record keeps the source as the call found it.
socks_negotiation(c) ==
  /\ last.op = "socks_request"
  /\ LET r == socks5_handle_negotiation(conns[c].inbound, conns[c].outbound)
     IN /\ conns' = [conns EXCEPT ![c].inbound = r.source,
                                  ![c].outbound = r.dest]
        /\ last' = Call("socks5_handle_negotiation", c, NULL, r.rc, NoCircuit,
                        <<conns[c].inbound>>, <<>>)
  /\ UNCHANGED <<apache, enomem, circuits, circuit_table, aborted, nwire>>

\* The reply is taken from dest and what is left of source is drained.
socks_buffers_emptied(c) ==
  /\ last.op = "socks5_handle_negotiation"
  /\ conns' = [conns EXCEPT ![c].inbound = <<>>, ![c].outbound = <<>>]
  /\ last' = Call("evbuffer_drain", c, NULL, 0, NoCircuit, <<>>, <<>>)
  /\ UNCHANGED <<apache, enomem, circuits, circuit_table, aborted, nwire>>

NextSocks ==
  \E c \in RecvConns :
    \/ \E req \in SocksRequests : socks_request_arrives(c, req)
    \/ socks_negotiation(c)
    \/ socks_buffers_emptied(c)

SpecSocks == Init /\ [][NextSocks]_vars

\* What test_socks_send_negotiation asserts of the call on request req, when
\* req is one of its five: the value returned, the bytes left in source and
\* the reply in dest.
SocksTestAsserts(req, rc, source, dest) ==
  /\ req = <<1, 0>> => rc = 1 /\ Len(source) = 0 /\ dest = <<5, 0>>
  /\ req = <<9>> \o Repeated(66, 8) \o <<0>>
       => rc = 1 /\ Len(source) = 0 /\ dest = <<5, 0>>
  /\ req = <<99>> \o Repeated(66, 99)
       => rc = -1 /\ Len(source) = 0 /\ dest = <<5, 255>>
  /\ req = <<4, 0, 0, 0>> => rc = 0 /\ Len(source) = 4
  /\ req = <<3, 0, 0, 0, 0>> => rc = 1 /\ Len(source) = 1 /\ dest = <<5, 0>>

\* The methods of a request whose list is complete.
Offered(req) == {req[k] : k \in 2 .. req[1] + 1}

\* C24: for every complete method list, socks5_handle_negotiation writes the
\* reply {5, 0} to dest and returns 1 if and only if the methods offered
\* include NOAUTH (0), and otherwise writes {5, 0xFF} and returns -1; either
\* way exactly 1 + nmethods bytes are removed from source.  With fewer than
\* nmethods method bytes in source it returns 0 and removes nothing.
C24_Negotiation ==
  (last.op = "socks5_handle_negotiation")
    => LET req == last.blocks[1]
           source == conns[last.conn].inbound
           dest == conns[last.conn].outbound
       IN /\ SocksTestAsserts(req, last.rc, source, dest)
          /\ IF Len(req) >= 1 + req[1]
             THEN /\ Len(source) = Len(req) - (1 + req[1])
                  /\ source = SubSeq(req, req[1] + 2, Len(req))
                  /\ IF SOCKS5_METHOD_NOAUTH \in Offered(req)
                     THEN last.rc = 1 /\ dest = <<5, 0>>
                     ELSE last.rc = -1 /\ dest = <<5, 255>>
             ELSE /\ last.rc = 0
                  /\ source = req
                  /\ dest = <<>>

\* The second request of test_socks_send_negotiation has been handled: nine
\* methods, of which only the last is NOAUTH.
C24_NoauthLast ==
  /\ last.op = "socks5_handle_negotiation"
  /\ last.blocks[1] = <<9>> \o Repeated(66, 8) \o <<0>>
  /\ last.rc = 1
  /\ conns[last.conn].inbound = <<>>


\* ------------------------------------------------------------------------
\* Properties of roundrobin_circuit_send_eof
\* ------------------------------------------------------------------------

\* C25: roundrobin_circuit_send_eof on a circuit with no downstream sets
\* sent_fin and returns success; it emits no block and leaves send_offset,
\* next_down, sent_syn and xmit_pending, and every other field of the
\* circuit, as they were.
C25_EofWithoutDownstream ==
  (last.op = "circuit_send_eof" /\ last.was.downstreams = <<>>)
    => /\ circuits[last.circuit] = [last.was EXCEPT !.sent_fin = TRUE]
       /\ circuits[last.circuit].sent_fin
       /\ ~aborted[Process(last.circuit)]
       /\ \A c \in ConnIds : conns[c].circuit # last.circuit

\* The call was made on a circuit that had lost its downstream, with data of
\* the upstream not yet sent.
C25_EofAfterLastDrop ==
  /\ last.op = "circuit_send_eof"
  /\ last.was.downstreams = <<>>
  /\ last.was.attached # {}
  /\ last.was.up_input # <<>>
  /\ circuits[last.circuit].sent_fin


\* The headers circuit record now has emitted since it was as in was.
EmittedSince(was, now) ==
  SubSeq(now.emitted, Len(was.emitted) + 1, Len(now.emitted))

\* Bytes of the upstream that circuit record ckt has not yet emitted.
Pending(ckt) == BufLen(ckt.xmit_pending) + BufLen(ckt.up_input)

\* C26: roundrobin_circuit_send_eof on a circuit with pending upstream data
\* and at least one downstream emits every pending byte (xmit_pending ends
\* empty); the blocks before the last carry no FIN, the last carries FIN and
\* holds what was left; afterwards sent_fin is set and conn_send_eof has
\* been called on every downstream of the circuit.
C26_EofFlushesPending ==
  (/\ last.op = "circuit_send_eof"
   /\ last.was.downstreams # <<>>
   /\ Pending(last.was) > 0)
    => LET now == circuits[last.circuit]
           e == EmittedSince(last.was, now)
       IN /\ Pending(now) = 0
          /\ e # <<>>
          /\ SumLengths(e, Len(e)) = Pending(last.was)
          /\ \A k \in DOMAIN e : HasFlag(e[k].flags, RR_F_FIN) <=> k = Len(e)
          /\ e[Len(e)].length <= RR_MAX_BLOCK
          /\ now.sent_fin
          /\ \A d \in DOMAIN now.downstreams : conns[now.downstreams[d]].sent_eof


\* ------------------------------------------------------------------------
\* Specification of both paths with evbuffer calls that fail
\* ------------------------------------------------------------------------

\* The sets of evbuffer calls that may fail together.
MemorySites == {{}, {"send_block"}, {"grow"}, {"merge"}}

\* Memory runs out, or is there again: from now on the evbuffer calls of
\* sites fail.
memory_changes(sites) ==
  /\ sites # enomem
  /\ enomem' = sites
  /\ last' = Call("memory_changes", NULL, NULL, 0, NoCircuit, <<>>, <<>>)
  /\ UNCHANGED <<apache, circuits, conns, circuit_table, aborted, nwire>>

\* Blocks the network may deliver in one run.
MaxCommitBlocks == 4

\* The blocks that follow the first of a stream: with the first still
\* missing they stay on the reassembly queue and merge there.
CommitHeaders == {Header(0, k * RecvLength, RecvLength, 0) : k \in 1 .. 3}

NextCommit ==
  \/ \E sites \in MemorySites : memory_changes(sites)
  \/ \E c \in RecvConns : \E hdr \in CommitHeaders :
       nwire + 1 < MaxCommitBlocks /\ net_arrive(c, hdr)
  \/ \E c \in RecvConns :
       nwire + 1 = MaxCommitBlocks /\ net_arrive(c, LastHeader)
  \/ \E c \in RecvConns : \E ub \in UBOutcomes : roundrobin_conn_recv(c, ub)
  \/ client_connect(1)
  \/ /\ circuits[ClientHandle].up_read = 0
     /\ upstream_data(ClientHandle, RecvLength)
  \/ roundrobin_circuit_send(ClientHandle)
  \/ roundrobin_circuit_send_eof(ClientHandle)

SpecCommit == Init /\ [][NextCommit]_vars

\* A transmit handler whose first attempt to emit a block has failed with
\* -1 has left xmit_pending, send_offset, sent_syn, next_down and
\* next_block_size as they were before the attempt.
NoPartialSend ==
  (/\ last.op \in {"circuit_send", "circuit_send_eof"}
   /\ last.rc = -1
   /\ EmittedSince(last.was, circuits[last.circuit]) = <<>>)
    => LET now == circuits[last.circuit]
           before == TakeUpstream(last.was)
       IN /\ now.xmit_pending = before.xmit_pending
          /\ now.send_offset = before.send_offset
          /\ now.sent_syn = before.sent_syn
          /\ now.next_down = before.next_down
          /\ now.next_block_size = before.next_block_size

\* A block for which rr_reassemble_block has returned -1 has left the
\* reassembly queue as it was, and the call has left recv_offset as it was.
NoPartialReassembly ==
  (last.op = "conn_recv" /\ last.circuit # NULL)
    => /\ \A k \in DOMAIN last.blocks :
            last.blocks[k].rc = -1
              => last.blocks[k].after = last.blocks[k].queue
       /\ last.rc = -1
            => circuits[last.circuit].recv_offset = last.was.recv_offset

\* C27: no partial commit on failure.  When emitting a block fails
\* (rr_send_block returns -1), xmit_pending, send_offset, sent_syn, next_down
\* and next_block_size are as they were before the attempt; when
\* rr_reassemble_block fails, the reassembly queue and recv_offset are as
\* they were before the call.
C27_NoPartialCommit == NoPartialSend /\ NoPartialReassembly


\* ------------------------------------------------------------------------
\* Properties of the circuit-id check
\* ------------------------------------------------------------------------

\* r is what roundrobin_conn_recv returns for connection c of circuit h in
\* the present state.  If the last block it has handled is for another
\* circuit, it has returned -1, the blocks before that one are gone from the
\* inbound buffer and that one is still at its head, and the reassembly
\* queue is as the blocks before left it.
IdCheckKeepsBlock(c, h, r) ==
  LET n == Len(r.call.blocks)
      b == r.call.blocks[n]
  IN (n > 0 /\ b.hdr.ckt_id # circuits[h].circuit_id)
       => /\ r.rc = -1
          /\ b.rc = -1
          /\ r.st.conns[c].inbound
               = SubSeq(conns[c].inbound, n, Len(conns[c].inbound))
          /\ rr_peek_header(Head(r.st.conns[c].inbound).header) = b.hdr
          /\ r.st.circuits[h].reassembly_queue = b.queue
          /\ n = 1 => b.queue = circuits[h].reassembly_queue

\* C28: on a connection that is attached to a circuit, a complete block
\* whose header names another circuit id than the circuit's own makes
\* roundrobin_conn_recv return -1; the block is not consumed from the inbound
\* buffer and the reassembly queue is not changed.
C28_IdMismatchKeepsBlock ==
  \A c \in ServerConns :
    (/\ conns[c].circuit # NULL
     /\ conns[c].open
     /\ circuits[conns[c].circuit].state = "open"
     /\ ~aborted["server"])
      => IdCheckKeepsBlock(c, conns[c].circuit,
                           ConnRecv(State(circuits, conns, circuit_table,
                                          aborted),
                                    c, "intact"))

\* roundrobin_conn_recv has returned -1 for a block with another circuit id
\* on a connection whose circuit had blocks on its reassembly queue.
C28_MismatchOnAttached ==
  /\ last.op = "conn_recv"
  /\ last.rc = -1
  /\ last.blocks # <<>>
  /\ last.blocks[Len(last.blocks)].hdr.ckt_id # last.was.circuit_id
  /\ last.was.reassembly_queue # <<>>
  /\ circuits[last.circuit].reassembly_queue
       = last.blocks[Len(last.blocks)].queue


\* ------------------------------------------------------------------------
\* Sequence arithmetic on its own
\* ------------------------------------------------------------------------

\* Offsets at and next to the bottom, the middle and the top of the offset
\* space.
ModValues ==
  {0, 1, 2, 3, OffsetHalf - 2, OffsetHalf - 1, OffsetHalf, OffsetHalf + 1,
   OffsetHalf + 2, OffsetMod - 3, OffsetMod - 2, OffsetMod - 1}

\* mod32_lt and mod32_le are applied to s and t, both ways round.
offsets_compared(s, t) ==
  /\ last' = Call("mod32", NULL, NULL, 0, NoCircuit,
                  <<[s |-> s, t |-> t,
                     lt |-> mod32_lt(s, t), gt |-> mod32_lt(t, s),
                     le |-> mod32_le(s, t), ge |-> mod32_le(t, s)]>>,
                  <<>>)
  /\ UNCHANGED <<apache, circuits, conns, circuit_table, aborted, nwire, enomem>>

NextMod == \E s \in ModValues : \E t \in ModValues : offsets_compared(s, t)

SpecMod == Init /\ [][NextMod]_vars

\* C29: for all offsets s and t, mod32_lt(s, t) holds iff (t - s) mod 2^w
\* lies strictly between 0 and 2^(w-1), and mod32_le(s, t) iff it is below
\* 2^(w-1); so mod32_lt is irreflexive, mod32_lt(s, t) and mod32_lt(t, s)
\* never both hold, and mod32_le(s, t) and mod32_le(t, s) both hold only
\* when s = t.
C29_ModularOrder ==
  (last.op = "mod32")
    => LET r == last.blocks[1]
           d == (r.t - r.s) % OffsetMod
       IN /\ r.lt <=> (0 < d /\ d < OffsetHalf)
          /\ r.le <=> d < OffsetHalf
          /\ r.s = r.t => ~r.lt
          /\ ~(r.lt /\ r.gt)
          /\ (r.le /\ r.ge) => r.s = r.t

\* Two offsets exactly half the space apart have been compared: neither is
\* at or before the other.
C29_HalfApart ==
  /\ last.op = "mod32"
  /\ last.blocks[1].s = OffsetMod - 1
  /\ last.blocks[1].t = OffsetHalf - 1
  /\ ~last.blocks[1].le
  /\ ~last.blocks[1].ge


\* ------------------------------------------------------------------------
\* Properties of chaff
\* ------------------------------------------------------------------------

\* The sum of the length fields, and of the bytes held, of the elements of
\* reassembly queue q.
RECURSIVE QueueLength(_)
QueueLength(q) ==
  IF q = <<>> THEN 0 ELSE Head(q).length + QueueLength(Tail(q))

RECURSIVE QueueBytes(_)
QueueBytes(q) ==
  IF q = <<>> THEN 0 ELSE BufLen(Head(q).data) + QueueBytes(Tail(q))

\* Header hdr is chaff without SYN and without FIN.
PlainChaff(hdr) ==
  /\ HasFlag(hdr.flags, RR_F_CHAFF)
  /\ ~HasFlag(hdr.flags, RR_F_SYN)
  /\ ~HasFlag(hdr.flags, RR_F_FIN)

\* Block record b of a chaff block: without SYN and FIN it is accepted and
\* the queue is as before; with SYN or FIN, if it is accepted, it is on the
\* queue with its flags and the queue has no more length and no more bytes
\* than before.
ChaffHandled(b) ==
  IF PlainChaff(b.hdr)
  THEN b.rc = 0 /\ b.after = b.queue
  ELSE b.rc = 0
         => /\ QueueLength(b.after) = QueueLength(b.queue)
            /\ QueueBytes(b.after) = QueueBytes(b.queue)
            /\ \E k \in DOMAIN b.after :
                 /\ HasFlag(b.after[k].flags, RR_F_CHAFF)
                 /\ HasFlag(b.hdr.flags, RR_F_SYN)
                      => HasFlag(b.after[k].flags, RR_F_SYN)
                 /\ HasFlag(b.hdr.flags, RR_F_FIN)
                      => HasFlag(b.after[k].flags, RR_F_FIN)

\* C30: a received CHAFF block with neither SYN nor FIN is accepted (return
\* 0) and leaves the reassembly queue, recv_offset, received_syn,
\* received_fin and the upstream output unchanged; a CHAFF block with SYN or
\* FIN is queued with length 0, and its payload never reaches upstream: what
\* is written upstream is the data blocks' bytes only.
C30_Chaff ==
  (last.op = "conn_recv" /\ last.circuit # NULL)
    => LET now == circuits[last.circuit]
       IN /\ \A k \in DOMAIN last.blocks :
               HasFlag(last.blocks[k].hdr.flags, RR_F_CHAFF)
                 => ChaffHandled(last.blocks[k])
          /\ (/\ last.blocks # <<>>
              /\ \A k \in DOMAIN last.blocks : PlainChaff(last.blocks[k].hdr))
               => /\ last.rc = 0
                  /\ last.delivered = <<>>
                  /\ now.reassembly_queue = last.was.reassembly_queue
                  /\ now.recv_offset = last.was.recv_offset
                  /\ now.received_syn = last.was.received_syn
                  /\ now.received_fin = last.was.received_fin
                  /\ now.up_output = last.was.up_output
          /\ \A k \in DOMAIN last.delivered :
               /\ BufLen(last.delivered[k].elt.data)
                    = last.delivered[k].elt.length
               /\ BufLen(now.up_output)
                    = BufLen(last.was.up_output) + last.delivered[k].elt.length

\* A chaff block that carries SYN has been queued and written upstream
\* together with a data block: the element has the length of the data block.
C30_ChaffSynDelivered ==
  /\ last.op = "conn_recv"
  /\ last.rc = 0
  /\ \E k \in DOMAIN last.blocks :
       /\ HasFlag(last.blocks[k].hdr.flags, RR_F_CHAFF)
       /\ HasFlag(last.blocks[k].hdr.flags, RR_F_SYN)
       /\ last.blocks[k].hdr.length = RecvLength
       /\ last.blocks[k].rc = 0
  /\ last.delivered # <<>>
  /\ HasFlag(last.delivered[1].elt.flags, RR_F_CHAFF)
  /\ last.delivered[1].elt.length = RecvLength

\* ------------------------------------------------------------------------
\* Properties of the SYN, FIN and plain-block tests
\* ------------------------------------------------------------------------

\* The end of the block of header hdr as rr_reassemble_block computes it
\* (the length of a chaff block has been set to 0 before).
BlockEnd(hdr) == U32(hdr.offset + PayloadLength(hdr))

\* C31: a received block that carries SYN is accepted only if its offset is
\* 0: every SYN block with another offset is rejected by
\* rr_reassemble_block, and a SYN block is rejected as well when the first
\* element of the queue starts before the end (offset + length) of the SYN
\* block; a rejected block leaves the queue as it was.
C31_SynOffsetZero ==
  \A b \in Handled :
    HasFlag(b.hdr.flags, RR_F_SYN)
      => /\ b.rc = 0 => b.hdr.offset = 0
         /\ b.hdr.offset # 0 => b.rc = -1 /\ b.after = b.queue
         /\ (b.queue # <<>> /\ mod32_lt(b.queue[1].offset, BlockEnd(b.hdr)))
              => b.rc = -1 /\ b.after = b.queue

\* The case of C31: a SYN block at offset 0 has been rejected on a circuit
\* that has received no SYN, because the first queue element, which carries
\* no SYN, starts inside the block.
C31_SynOverQueued ==
  /\ last.op = "conn_recv"
  /\ last.rc = -1
  /\ ~last.was.received_syn
  /\ \E b \in Handled :
       /\ HasFlag(b.hdr.flags, RR_F_SYN)
       /\ b.rc = -1
       /\ b.hdr.offset = 0
       /\ b.queue # <<>>
       /\ ~HasFlag(b.queue[1].flags, RR_F_SYN)
       /\ b.queue[1].offset = 5

\* ------------------------------------------------------------------------
\* Receiving blocks whose offsets lie half the offset space apart
\* ------------------------------------------------------------------------

\* The offset field of a received header is any uint32_t: nothing in
\* roundrobin_conn_recv bounds it.  Offsets near 0 and offsets about half
\* the space further on (none exactly half the space from another).
FarOffsets == {0, 5, 10, 20, OffsetHalf + 2, OffsetHalf + 17}

FarFlags == {0, RR_F_SYN, RR_F_FIN}

MaxFarBlocks == 4

FarHeaders == { Header(0, o, RecvLength, f) : o \in FarOffsets, f \in FarFlags }

NextFar ==
  \E c \in RecvConns :
    \/ \E hdr \in FarHeaders : nwire + 1 < MaxFarBlocks /\ net_arrive(c, hdr)
    \/ nwire + 1 = MaxFarBlocks /\ net_arrive(c, LastHeader)
    \/ \E ub \in UBOutcomes : roundrobin_conn_recv(c, ub)

SpecFar == Init /\ [][NextFar]_vars

\* Every element of queue q that carries FIN is the last element of q.
FinLast(q) == \A j \in DOMAIN q : HasFlag(q[j].flags, RR_F_FIN) => j = Len(q)

\* Header hdr is a plain data block: no SYN, no FIN, no chaff.
PlainBlock(hdr) ==
  /\ ~HasFlag(hdr.flags, RR_F_SYN)
  /\ ~HasFlag(hdr.flags, RR_F_FIN)
  /\ ~HasFlag(hdr.flags, RR_F_CHAFF)

\* Block record b is rejected if it is a FIN block whose offset lies before
\* the end of the last queued element.
FinBlockOrdered(b) ==
  ( /\ HasFlag(b.hdr.flags, RR_F_FIN)
    /\ b.queue # <<>>
    /\ mod32_lt(b.hdr.offset, EltEnd(b.queue[Len(b.queue)])) )
    => b.rc = -1

\* Block record b is rejected if it is a plain block that lies before the
\* end of a queued SYN element or after the start of a queued FIN element.
PlainBlockOrdered(b) ==
  ( /\ PlainBlock(b.hdr)
    /\ \E j \in DOMAIN b.queue :
         \/ /\ HasFlag(b.queue[j].flags, RR_F_SYN)
            /\ mod32_lt(b.hdr.offset, EltEnd(b.queue[j]))
         \/ /\ HasFlag(b.queue[j].flags, RR_F_FIN)
            /\ mod32_lt(b.queue[j].offset, BlockEnd(b.hdr)) )
    => b.rc = -1

\* C32: rr_reassemble_block rejects a FIN block whose offset lies before the
\* end of the last queued element, and a plain block that would lie before
\* the end of a queued SYN element or after the start of a queued FIN
\* element; so an element that carries FIN is always the last element of
\* its reassembly queue.
C32_FinOrdering ==
  /\ \A b \in Handled : FinBlockOrdered(b) /\ PlainBlockOrdered(b)
  /\ \A h \in ServerHandles :
       circuits[h].state = "open" => FinLast(circuits[h].reassembly_queue)

\* ------------------------------------------------------------------------
\* Properties of rr_push_to_upstream
\* ------------------------------------------------------------------------

\* The reassembly queue that the call of roundrobin_conn_recv made last
\* handed to rr_push_to_upstream: the queue as the loop left it.
LoopQueue ==
  IF last.blocks = <<>>
  THEN last.was.reassembly_queue
  ELSE last.blocks[Len(last.blocks)].after

\* The first element of queue q can be delivered on circuit record ckt.
Deliverable(q, ckt) ==
  /\ q # <<>>
  /\ q[1].offset = ckt.recv_offset
  /\ ckt.received_syn \/ HasFlag(q[1].flags, RR_F_SYN)

\* A call of roundrobin_conn_recv has run to rr_push_to_upstream.
Pushed ==
  /\ last.op = "conn_recv"
  /\ last.circuit # NULL
  /\ last.rc = 0

\* C33: rr_push_to_upstream delivers the first queue element iff it exists,
\* its offset equals recv_offset, and received_syn is true or the element
\* carries SYN; a delivery advances recv_offset by the length of the element
\* and removes the element, and the next element, if any, does not start at
\* the new recv_offset.
C33_PushDelivers ==
  Pushed
    => LET now == circuits[last.circuit]
       IN /\ last.delivered # <<>> <=> Deliverable(LoopQueue, last.was)
          /\ last.delivered # <<>>
               => /\ Len(last.delivered) = 1
                  /\ last.delivered[1].elt = LoopQueue[1]
                  /\ now.received_syn
                  /\ now.up_output
                       = BufAdd(last.was.up_output, LoopQueue[1].data)
                  /\ now.recv_offset
                       = U32(last.was.recv_offset + LoopQueue[1].length)
                  /\ now.reassembly_queue = Tail(LoopQueue)
                  /\ ~Deliverable(now.reassembly_queue, now)
          /\ last.delivered = <<>>
               => /\ now.reassembly_queue = LoopQueue
                  /\ now.recv_offset = last.was.recv_offset
                  /\ now.up_output = last.was.up_output

\* ------------------------------------------------------------------------
\* Properties of the reassembly queue
\* ------------------------------------------------------------------------

\* Queue q is sorted by offset (mod 2^w), no two of its elements have a byte
\* in common, and no element ends where its neighbour starts.
QueueSorted(q) ==
  \A j \in 1 .. Len(q) - 1 : mod32_lt(q[j].offset, q[j + 1].offset)

QueueDisjoint(q) ==
  \A i, j \in DOMAIN q :
    i < j => ~Overlap(q[i].offset, q[i].length, q[j].offset, q[j].length)

QueueGapped(q) ==
  \A j \in 1 .. Len(q) - 1 : EltEnd(q[j]) # q[j + 1].offset

\* Block record b of a block that fills the gap between elements j and j + 1
\* of the queue: the three have become one element, which has the offset of
\* element j, the sum of the lengths, the union of the flags, and the three
\* payloads in offset order.
Bridged(b, j) ==
  LET q == b.queue
      m == b.after[j]
      n == Len(q[j].data)
      k == Len(m.data) - Len(q[j + 1].data)
  IN /\ Len(b.after) = Len(q) - 1
     /\ \A i \in 1 .. j - 1 : b.after[i] = q[i]
     /\ \A i \in j + 2 .. Len(q) : b.after[i - 1] = q[i]
     /\ m.offset = q[j].offset
     /\ m.length = q[j].length + b.hdr.length + q[j + 1].length
     /\ m.flags = BitOr(BitOr(q[j].flags, b.hdr.flags), q[j + 1].flags)
     /\ k >= n
     /\ SubSeq(m.data, 1, n) = q[j].data
     /\ SubSeq(m.data, k + 1, Len(m.data)) = q[j + 1].data
     /\ BufLen(SubSeq(m.data, n + 1, k)) = b.hdr.length
     /\ InPlace(SubSeq(m.data, n + 1, k), b.hdr.offset)

\* Block record b fills the gap between elements j and j + 1 of its queue.
Bridges(b, j) ==
  /\ b.hdr.length > 0
  /\ ~HasFlag(b.hdr.flags, RR_F_CHAFF)
  /\ EltEnd(b.queue[j]) = b.hdr.offset
  /\ BlockEnd(b.hdr) = b.queue[j + 1].offset

\* Element e has this offset, length and flags.
EltIs(e, offset, length, flags) ==
  e.offset = offset /\ e.length = length /\ e.flags = flags

\* The example: the blocks 0 (length 10, SYN), 20 (length 10) and 10 (length
\* 10) have been received in this order on a new circuit, the last of them
\* in the call made last; the SYN block has been written upstream by an
\* earlier call, or all three are handled by this one.
ExampleReceived ==
  /\ Pushed
  /\ last.blocks # <<>>
  /\ LET b == last.blocks[Len(last.blocks)]
     IN /\ b.hdr = Header(0, RecvLength, RecvLength, 0)
        /\ \/ /\ Len(b.queue) = 1
              /\ EltIs(b.queue[1], 2 * RecvLength, RecvLength, 0)
              /\ last.was.recv_offset = RecvLength
              /\ last.was.received_syn
              /\ BufLen(last.was.up_output) = RecvLength
           \/ /\ Len(b.queue) = 2
              /\ EltIs(b.queue[1], 0, RecvLength, RR_F_SYN)
              /\ EltIs(b.queue[2], 2 * RecvLength, RecvLength, 0)
              /\ last.was.recv_offset = 0
              /\ last.was.up_output = <<>>

\* C34: after every successful rr_reassemble_block the reassembly queue is
\* sorted by offset (mod 2^w), its elements are pairwise non-overlapping and
\* no two neighbours abut: a block that bridges a gap is merged with both
\* neighbours into one element whose payload is the concatenation in offset
\* order and whose flags are the union.  The blocks 0 (length 10, SYN), 20
\* (length 10), 10 (length 10) yield 30 bytes upstream in order.
C34_QueueInvariant ==
  /\ \A b \in Handled :
       b.rc = 0
         => /\ QueueSorted(b.after)
            /\ QueueDisjoint(b.after)
            /\ QueueGapped(b.after)
            /\ \A j \in 1 .. Len(b.queue) - 1 : Bridges(b, j) => Bridged(b, j)
  /\ ExampleReceived
       => /\ BufLen(circuits[last.circuit].up_output) = 3 * RecvLength
          /\ InPlace(circuits[last.circuit].up_output, 0)
          /\ NoRepeat(circuits[last.circuit].up_output)

\* ------------------------------------------------------------------------
\* Properties of framing
\* ------------------------------------------------------------------------

\* The inbound buffer holds at least RR_MIN_BLOCK bytes and starts with a
\* complete block: a header and the payload bytes its length field counts.
CompleteBlock(input) ==
  /\ WireLen(input) >= RR_MIN_BLOCK
  /\ WireLen(input)
       >= RR_WIRE_HDR_LEN + rr_peek_header(Head(input).header).length

\* This step is a call of roundrobin_conn_recv on connection c that has
\* returned 0.
RecvReturned(c) ==
  /\ conns[c].unread
  /\ last'.op = "conn_recv"
  /\ last'.conn = c
  /\ last'.rc = 0
  /\ ~aborted'["server"]

\* C35: roundrobin_conn_recv parses nothing while the inbound buffer holds
\* fewer than 32 bytes, and whenever the buffer holds at least 32 bytes and
\* a complete block (16-byte header plus the payload bytes of its length),
\* that block is consumed and handed to reassembly in the same call: a call
\* that returns 0 leaves no complete block in a buffer of 32 bytes or more,
\* so the last block on a connection needs no bytes after it.
C35_Framing ==
  [][ \A c \in ServerConns :
        RecvReturned(c)
          => /\ WireLen(conns[c].inbound) < RR_MIN_BLOCK
                  => /\ last'.blocks = <<>>
                     /\ conns'[c].inbound = conns[c].inbound
             /\ CompleteBlock(conns[c].inbound) => last'.blocks # <<>>
             /\ ~CompleteBlock(conns'[c].inbound) ]_vars

\* ------------------------------------------------------------------------
\* Properties of the circuit table
\* ------------------------------------------------------------------------

\* C36: in every reachable state each entry of the circuit table with key X
\* refers to a live circuit whose circuit_id field is X, and there is at
\* most one entry per id; the entry of a circuit that has been destroyed
\* (roundrobin_circuit_free) is gone, so that a later block with its id
\* makes a new circuit.
C36_TableConsistent ==
  /\ \A e \in circuit_table :
       /\ circuits[e.circuit].state = "open"
       /\ circuits[e.circuit].circuit_id = e.circuit_id
  /\ \A e, f \in circuit_table : e.circuit_id = f.circuit_id => e = f

\* C37: the assertions of rr_push_to_upstream hold in every call, whatever
\* blocks rr_reassemble_block has accepted: when an element that carries
\* FIN is delivered, received_fin is still false and the element is the last
\* one on the queue; and the element after a delivered one does not start at
\* the new recv_offset.
C37_PushAsserts ==
  (Pushed /\ last.delivered # <<>>)
    => LET d == last.delivered[1]
       IN /\ HasFlag(d.elt.flags, RR_F_FIN)
               => ~d.received_fin /\ Len(LoopQueue) = 1
          /\ \/ Len(LoopQueue) = 1
             \/ LoopQueue[2].offset # U32(last.was.recv_offset + d.elt.length)

\* ------------------------------------------------------------------------
\* Properties of the assertions of rr_send_block
\* ------------------------------------------------------------------------

\* Circuit h can transmit: its process runs, it is open, and it has
\* downstream connections, all of them open, with next_down among them.
\* Then a transmit call stops at an assertion only in rr_send_block.
SendReady(h) ==
  /\ ~aborted[Process(h)]
  /\ circuits[h].state = "open"
  /\ circuits[h].downstreams # <<>>
  /\ circuits[h].next_down < Len(circuits[h].downstreams)
  /\ \A i \in DOMAIN circuits[h].downstreams :
       conns[circuits[h].downstreams[i]].open

\* This step is a call of roundrobin_circuit_send or
\* roundrobin_circuit_send_eof on circuit h.
Transmits(h) ==
  /\ last'.op \in {"circuit_send", "circuit_send_eof"}
  /\ last'.circuit = h

\* C38: the preconditions that rr_send_block asserts hold on every call
\* made by rr_send_blocks and roundrobin_circuit_send_eof, also for the
\* first block written to a downstream whose outbound buffer is empty: no
\* transmit call on a circuit that can transmit stops at the assertion
\* evbuffer_get_length(dest) >= length.
C38_SendBlockAsserts ==
  [][ \A h \in Handles :
        (SendReady(h) /\ Transmits(h)) => ~aborted'[Process(h)] ]_vars

\* ------------------------------------------------------------------------
\* Specification of the server's circuits under the event loop's scheduling
\* ------------------------------------------------------------------------

MaxTeardownBlocks == 2

\* One circuit is torn down: a whole stream arrives in one block on either
\* connection, the peers shut their ends down, and the upstream ends its
\* stream without having written anything.
NextTeardown ==
  \/ \E c \in ServerConns : \E hdr \in LifeHeaders :
       /\ nwire < MaxTeardownBlocks
       /\ ~conns[Peer(c)].sent_eof
       /\ net_arrive(c, hdr)
  \/ \E c \in ServerConns : \E ub \in UBOutcomes : roundrobin_conn_recv(c, ub)
  \/ \E c \in ServerConns : peer_send_eof(c)
  \/ \E c \in ServerConns : \E ub \in UBOutcomes : roundrobin_conn_recv_eof(c, ub)
  \/ \E c \in ServerConns : conn_closed(c)
  \/ \E h \in ServerHandles : axe_timer_fires(h)
  \/ \E h \in ServerHandles : roundrobin_circuit_send_eof(h)

\* The read callback of connection c is pending, and this step runs it.
RecvPending(c) ==
  /\ ~aborted["server"]
  /\ conns[c].open
  /\ conns[c].unread

RecvRuns(c) ==
  /\ RecvPending(c)
  /\ last'.op = "conn_recv"
  /\ last'.conn = c

\* The end-of-file callback of connection c is pending, and this step runs
\* it.
EofPending(c) ==
  /\ ~aborted["server"]
  /\ conns[c].open
  /\ ~conns[c].unread
  /\ ~conns[c].got_eof
  /\ conns[Peer(c)].sent_eof
  /\ conns[Peer(c)].outbound = <<>>

EofRuns(c) ==
  /\ EofPending(c)
  /\ last'.op = "conn_recv_eof"
  /\ last'.conn = c

\* The event loop runs every callback whose event is pending: the read
\* callback of a connection with unread bytes, the end-of-file callback of a
\* connection whose peer has shut down, and the axe timer once armed.  What
\* the network, the peers and the upstream do is not scheduled by the
\* program.  For the two connection callbacks weak fairness is written out
\* with the guard of the action (RecvPending, EofPending) in the place of
\* ENABLED: the handler has a result in every state that satisfies its
\* guard.
FairTeardown ==
  /\ \A h \in ServerHandles : WF_vars(axe_timer_fires(h))
  /\ \A c \in ServerConns :
       /\ []<>(~RecvPending(c)) \/ []<><<RecvRuns(c)>>_vars
       /\ []<>(~EofPending(c)) \/ []<><<EofRuns(c)>>_vars

SpecTeardown == Init /\ [][NextTeardown]_vars /\ FairTeardown

\* Circuit h has sent and received FIN, and the end-of-file callback has run
\* on every one of its downstream connections.
BothFinAllEof(h) ==
  /\ circuits[h].state = "open"
  /\ circuits[h].sent_fin
  /\ circuits[h].received_fin
  /\ \A i \in DOMAIN circuits[h].downstreams :
       conns[circuits[h].downstreams[i]].got_eof

op_STEG_NO_OP == 0

op_STEG_DICT_MAC == 1

op_STEG_DICT_UP2DATE == 2

op_STEG_DICT_UPDATE == 3

op_STEG_DICT_WAIT_PEER == 4

SHA256_DIGEST_LENGTH == 32

\* c_end_of_dict, "\r\n"
c_end_of_dict == <<13, 10>>

\* The dictionaries of a run: none, "a" and "b", and "c".
UriDicts == { <<>>, <<<<97>>, <<98>>>>, <<<<99>>>> }

\* uri_byte_cut has no initializer and init_uri_dict(), the one place that
\* assigns it, is called from nowhere: it holds whatever the allocation
\* left there.
UBByteCuts == {0, 1}

\* ApachePayloadServer::export_dict: one URL a line.
RECURSIVE export_dict(_)
export_dict(uri_dict) ==
  IF uri_dict = <<>> THEN <<>>
  ELSE Head(uri_dict) \o <<10>> \o export_dict(Tail(uri_dict))

\* ApachePayloadServer::init_uri_dict(stream): the lines of text; line is
\* the line read so far.
RECURSIVE init_uri_dict(_, _)
init_uri_dict(text, line) ==
  IF text = <<>> THEN (IF line = <<>> THEN <<>> ELSE <<line>>)
  ELSE IF Head(text) = 10 THEN <<line>> \o init_uri_dict(Tail(text), <<>>)
  ELSE init_uri_dict(Tail(text), Append(line, Head(text)))

RECURSIVE ByteSum(_)
ByteSum(text) == IF text = <<>> THEN 0 ELSE Head(text) + ByteSum(Tail(text))

\* ApachePayloadServer::uri_dict_mac: SHA256_DIGEST_LENGTH bytes that differ
\* between the dictionaries of a run.
uri_dict_mac(uri_dict) ==
  [k \in 1 .. SHA256_DIGEST_LENGTH |->
     (ByteSum(export_dict(uri_dict)) + k) % 256]

\* http_apache_steg_config_t(cfg) together with the member initializers:
\* protocol_data_in and protocol_data_out are new buffers.  big_endian is
\* the byte order of the machine, stegs the number of http_apache_steg_t
\* made for this configuration, mac_requests the number of dictionary MAC
\* requests written for it.
http_apache_steg_config_t(side, uri_dict, byte_cut, big_endian) ==
  /\ ~apache[side].constructed
  /\ apache' = [apache EXCEPT ![side] =
       [ constructed |-> TRUE,
         is_clientside |-> side = "client",
         cur_operation |-> op_STEG_NO_OP,
         uri_dict_up2date |-> FALSE,
         uri_byte_cut |-> byte_cut,
         uri_dict |-> uri_dict,
         protocol_data_in |-> <<>>,
         protocol_data_out |-> <<>>,
         big_endian |-> big_endian,
         stegs |-> 0,
         mac_requests |-> 0 ]]
  /\ last' = Call("http_apache_steg_config_t", side, NULL, 0, NoCircuit,
                  <<>>, <<>>)
  /\ UNCHANGED <<circuits, conns, circuit_table, aborted, nwire, enomem>>

\* Steg objects one configuration may get.
MaxStegs == 2

\* The condition under which the constructor asks the peer to validate the
\* dictionary; with the second variant every connection made before the
\* dictionary is valid asks.
RequestsValidation_every_connection(cfg) ==
  cfg.is_clientside /\ ~cfg.uri_dict_up2date

RequestsValidation(cfg) ==
  /\ cfg.is_clientside
  /\ ~cfg.uri_dict_up2date
  /\ cfg.cur_operation = op_STEG_NO_OP

\* http_apache_steg_t(cf, cn)
http_apache_steg_t(side) ==
  /\ apache[side].constructed
  /\ apache[side].stegs < MaxStegs
  /\ apache' = [apache EXCEPT ![side] =
       IF RequestsValidation(@)
       THEN [@ EXCEPT
               !.stegs = @ + 1,
               !.cur_operation = op_STEG_DICT_WAIT_PEER,
               !.protocol_data_out =
                  @ \o <<op_STEG_DICT_MAC>>
                    \o uri_dict_mac(apache[side].uri_dict),
               !.mac_requests = @ + 1]
       ELSE [@ EXCEPT !.stegs = @ + 1]]
  /\ last' = Call("http_apache_steg_t", side, NULL, 0, NoCircuit, <<>>, <<>>)
  /\ UNCHANGED <<circuits, conns, circuit_table, aborted, nwire, enomem>>

\* evbuffer_remove(protocol_data_in, &_cur_operation, 1): one byte of the
\* four of the enum is overwritten, the lowest on a little-endian machine
\* and the highest on a big-endian one.
ReadOperation(cur_operation, byte, big_endian) ==
  IF big_endian
  THEN (byte * 16777216) + (cur_operation % 16777216)
  ELSE (cur_operation \div 256) * 256 + byte

\* evbuffer_search: the position of the first occurrence of what in buf,
\* -1 when there is none.
evbuffer_search(buf, what) ==
  LET found == { p \in 0 .. Len(buf) - Len(what) :
                   SubSeq(buf, p + 1, p + Len(what)) = what }
  IN IF found = {} THEN -1
     ELSE CHOOSE p \in found : \A o \in found : p <= o

\* send_dict_to_peer
send_dict_to_peer(cfg) ==
  [cfg EXCEPT
     !.protocol_data_out =
        @ \o <<op_STEG_DICT_UPDATE>> \o export_dict(cfg.uri_dict)
          \o c_end_of_dict,
     !.cur_operation = op_STEG_NO_OP]

\* The body of process_protocol_data after the operation byte has been
\* read: [cfg, rc, complete], complete telling that the end of a dictionary
\* was found.
ProtocolDataHandled(cfg, op, input) ==
  IF op = op_STEG_DICT_MAC
  THEN IF Len(input) >= SHA256_DIGEST_LENGTH
       THEN LET rest == SubSeq(input, SHA256_DIGEST_LENGTH + 1, Len(input))
                read == [cfg EXCEPT !.cur_operation = op_STEG_NO_OP,
                                    !.protocol_data_in = rest]
            IN IF SubSeq(input, 1, SHA256_DIGEST_LENGTH)
                    = uri_dict_mac(cfg.uri_dict)
               THEN [ cfg |-> [read EXCEPT
                                 !.protocol_data_out =
                                    Append(@, op_STEG_DICT_UP2DATE)],
                      rc |-> 1, complete |-> FALSE ]
               ELSE [ cfg |-> send_dict_to_peer(read),
                      rc |-> Len(send_dict_to_peer(read).protocol_data_out),
                      complete |-> FALSE ]
       ELSE [ cfg |-> [cfg EXCEPT !.cur_operation = op,
                                  !.protocol_data_in = input],
              rc |-> 0, complete |-> FALSE ]
  ELSE IF op = op_STEG_DICT_UP2DATE
  THEN [ cfg |-> [cfg EXCEPT !.uri_dict_up2date = TRUE,
                             !.cur_operation = op_STEG_NO_OP,
                             !.protocol_data_in = input],
         rc |-> 0, complete |-> FALSE ]
  ELSE IF op = op_STEG_DICT_UPDATE
  THEN IF evbuffer_search(input, c_end_of_dict) # -1
       THEN [ cfg |-> [cfg EXCEPT
                         !.uri_dict =
                            init_uri_dict(
                              SubSeq(input, 1,
                                     Len(input) - Len(c_end_of_dict)),
                              <<>>),
                         !.uri_dict_up2date = TRUE,
                         !.cur_operation = op_STEG_NO_OP,
                         !.protocol_data_in = <<>>],
              rc |-> 0, complete |-> TRUE ]
       ELSE [ cfg |-> [cfg EXCEPT !.cur_operation = op,
                                  !.protocol_data_in = input],
              rc |-> 0, complete |-> FALSE ]
  ELSE [ cfg |-> [cfg EXCEPT !.cur_operation = op,
                             !.protocol_data_in = input],
         rc |-> 0, complete |-> FALSE ]

\* process_protocol_data, called when there is protocol data.  The call
\* record keeps the operation handled, the bytes it was handled with and
\* whether the end of a dictionary was found.
process_protocol_data(side) ==
  /\ apache[side].constructed
  /\ apache[side].protocol_data_in # <<>>
  /\ LET cfg == apache[side]
         reads == cfg.cur_operation
                    \in {op_STEG_NO_OP, op_STEG_DICT_WAIT_PEER}
         op == IF reads
               THEN ReadOperation(cfg.cur_operation,
                                  Head(cfg.protocol_data_in), cfg.big_endian)
               ELSE cfg.cur_operation
         input == IF reads THEN Tail(cfg.protocol_data_in)
                  ELSE cfg.protocol_data_in
         r == ProtocolDataHandled(cfg, op, input)
     IN /\ apache' = [apache EXCEPT ![side] = r.cfg]
        /\ last' = Call("process_protocol_data", side, NULL, r.rc, NoCircuit,
                        <<[op |-> op, input |-> input,
                           complete |-> r.complete]>>,
                        <<>>)
  /\ UNCHANGED <<circuits, conns, circuit_table, aborted, nwire, enomem>>

Other(side) == IF side = "client" THEN "server" ELSE "client"

\* Numbers of bytes the transport may carry at once: less than a request,
\* less than a dictionary with its end mark, and a whole request.
TransferSizes == {6, SHA256_DIGEST_LENGTH + 1}

\* The transport takes up to n bytes from the protocol_data_out of side to
\* the protocol_data_in of its peer.
protocol_data_transfer(side, n) ==
  /\ apache[side].constructed
  /\ apache[Other(side)].constructed
  /\ apache[side].protocol_data_out # <<>>
  /\ LET out == apache[side].protocol_data_out
         k == IF n < Len(out) THEN n ELSE Len(out)
     IN apache' = [apache EXCEPT
          ![side].protocol_data_out = SubSeq(out, k + 1, Len(out)),
          ![Other(side)].protocol_data_in = @ \o SubSeq(out, 1, k)]
  /\ last' = Call("protocol_data_transfer", side, NULL, 0, NoCircuit,
                  <<>>, <<>>)
  /\ UNCHANGED <<circuits, conns, circuit_table, aborted, nwire, enomem>>

c_max_uri_length == 2000

\* base64::encoder::encode and encode_end: the sextets of data, three bytes
\* to four sextets, with 64 for the padding character.
RECURSIVE base64_encode(_)
base64_encode(data) ==
  IF data = <<>> THEN <<>>
  ELSE LET b1 == data[1]
           b2 == IF Len(data) > 1 THEN data[2] ELSE 0
           b3 == IF Len(data) > 2 THEN data[3] ELSE 0
       IN << b1 \div 4,
             (b1 % 4) * 16 + (b2 \div 16),
             IF Len(data) > 1 THEN (b2 % 16) * 4 + (b3 \div 64) ELSE 64,
             IF Len(data) > 2 THEN b3 % 64 ELSE 64 >>
          \o base64_encode(SubSeq(data, 4, Len(data)))

\* The loop that reads the first uri_byte_cut bytes of data as a number.
RECURSIVE url_index(_, _, _)
url_index(data, n, index) ==
  IF n = 0 \/ data = <<>> THEN index
  ELSE url_index(Tail(data), n - 1, index * 256 + Head(data))

\* The payloads http_client_uri_transmit is given.
Payloads == { <<>>, <<1>>, <<0, 7, 7, 7>>, <<2, 7>> }

\* What uri_dict[url_index] may read as a URL when url_index is not an
\* index of the dictionary.
UBUrls == { <<>>, <<63>> }

\* chosen_url
chosen_url(cfg, source, ub) ==
  IF ~(Len(cfg.uri_dict) # 0 /\ cfg.uri_dict_up2date) THEN <<>>
  ELSE LET index == url_index(source, cfg.uri_byte_cut, 0)
       IN IF index < Len(cfg.uri_dict) THEN cfg.uri_dict[index + 1] ELSE ub

\* The URI and the number of bytes to drain: the bytes after the first
\* uri_byte_cut go base64-encoded into the parameter q, and a source of no
\* more than uri_byte_cut bytes gives the parameter p with the length as
\* one character.  104 .. 47 is "http://", 112 the peername "p" of the
\* connection, and 63, 47, 61 are "?", "/", "=".
UriToSend(cfg, source, url) ==
  IF Len(source) > cfg.uri_byte_cut
  THEN [ uri |-> <<104, 116, 116, 112, 58, 47, 47>> \o <<112>> \o <<47>>
                   \o url \o <<63, 113, 61>>
                   \o base64_encode(SubSeq(source, cfg.uri_byte_cut + 1,
                                           Len(source))),
         sbuflen |-> Len(source) - cfg.uri_byte_cut ]
  ELSE [ uri |-> url \o <<63, 112, 61>> \o <<Len(source) % 256>>,
         sbuflen |-> Len(source) ]

\* http_client_uri_transmit(source, conn) on one of the client's steg
\* objects; curl_ok is the outcome of curl_multi_perform.  evbuffer_pullup
\* of an empty buffer gives NULL.  The call record keeps the source, the
\* URL chosen, the URI, what is left of the source and have_transmitted.
http_client_uri_transmit(source, ub, curl_ok) ==
  /\ apache["client"].constructed
  /\ apache["client"].stegs > 0
  /\ LET cfg == apache["client"]
         url == chosen_url(cfg, source, ub)
         r == UriToSend(cfg, source, url)
         sent == /\ source # <<>>
                 /\ Len(r.uri) <= c_max_uri_length
                 /\ curl_ok
     IN last' = Call("http_client_uri_transmit", "client", NULL,
                     IF sent THEN 0 ELSE -1, NoCircuit,
                     <<[ source |-> source,
                         uri_dict_up2date |-> cfg.uri_dict_up2date,
                         chosen_url |-> IF source = <<>> THEN <<>> ELSE url,
                         uri_to_send |-> IF source = <<>> THEN <<>>
                                         ELSE r.uri,
                         left |-> IF sent
                                  THEN SubSeq(source, r.sbuflen + 1,
                                              Len(source))
                                  ELSE source,
                         have_transmitted |-> sent ]>>,
                     <<>>)
  /\ UNCHANGED <<apache, circuits, conns, circuit_table, aborted, nwire,
                 enomem>>

NextDict ==
  \/ \E side \in Sides : \E uri_dict \in UriDicts :
       \E byte_cut \in UBByteCuts : \E big_endian \in BOOLEAN :
         http_apache_steg_config_t(side, uri_dict, byte_cut, big_endian)
  \/ \E side \in Sides : http_apache_steg_t(side)
  \/ \E side \in Sides : \E n \in TransferSizes :
       protocol_data_transfer(side, n)
  \/ \E side \in Sides : process_protocol_data(side)
  \/ \E source \in Payloads : \E ub \in UBUrls : \E curl_ok \in BOOLEAN :
       http_client_uri_transmit(source, ub, curl_ok)

SpecDict == Init /\ [][NextDict]_vars

\* The call just made handled, on the client, the reply
\* op_STEG_DICT_UP2DATE, or an op_STEG_DICT_UPDATE with all of the server's
\* dictionary and its end mark received, which is now the client's
\* dictionary.
ReplyHandled ==
  /\ last'.op = "process_protocol_data"
  /\ last'.conn = "client"
  /\ \/ last'.blocks[1].op = op_STEG_DICT_UP2DATE
     \/ /\ last'.blocks[1].op = op_STEG_DICT_UPDATE
        /\ apache["server"].constructed
        /\ last'.blocks[1].input
             = export_dict(apache["server"].uri_dict) \o c_end_of_dict
        /\ apache'["client"].uri_dict = apache["server"].uri_dict

\* The URL the call just made has chosen is empty unless the dictionary is
\* up to date.
UrlOnlyUpToDate ==
  /\ last'.blocks[1].chosen_url # <<>> => apache["client"].uri_dict_up2date
  /\ ~apache["client"].uri_dict_up2date =>
       last'.blocks[1].uri_to_send
         = UriToSend(apache["client"], last'.blocks[1].source, <<>>).uri

====
